---- MODULE Spec2Model ----
(***************************************************************************)
(* Code-graph: the graph builder of analyze_codebase.py (GraphBuilder) and *)
(* the query engine of query_graph.py (GraphQuery).                         *)
(*                                                                          *)
(* Python values are modelled as follows.                                   *)
(*   str used for matching   a sequence of one-character strings            *)
(*   str used as an id/tag   a TLA+ string                                  *)
(*   list                    a sequence                                     *)
(*   dict / defaultdict /    a sequence of <<key, value>> pairs with        *)
(*   Counter                 pairwise distinct keys, in insertion order     *)
(*   set                     a set                                          *)
(*   dict with fixed keys    a record                                       *)
(***************************************************************************)
EXTENDS Integers, Sequences, FiniteSets, TLC

VARIABLES
    builder,      \* the GraphBuilder object: nodes, edges, _edge_set
    call,         \* the last builder call: its name, arguments and return value
    calls,        \* number of builder calls made so far
    phase,        \* "build", "written", "loaded", "impact", "cluster", "path", "done";
                  \* of the query process also "cli", "parsed", "found", "exit"
    graph_file,   \* the JSON document on disk (.code_graph.json)
    gq,           \* the GraphQuery object: nodes, edges, outgoing, incoming, ...
    matches,      \* cmd_*: the nodes the command iterates over
    idx,          \* cmd_impact: position in matches of the node being analysed
    queue,        \* the BFS queue of the running command
    visited,      \* the BFS visited set of the running command
    affected,     \* cmd_impact: dict node id -> depth of the node being analysed
    end_ids,      \* cmd_path: the ids of the nodes matching the second argument
    exit_code,    \* the exit code of the query process, None while it runs
    viewer,       \* the page of the HTML viewer: nodes, nodeMap, edges, S, counters
    output        \* the structured result of the running / last command

bvars == <<builder, call, calls>>
tvars == <<matches, idx, queue, visited, affected, end_ids, output>>
vars == <<builder, call, calls, phase, graph_file, gq, matches, idx, queue, visited,
          affected, end_ids, exit_code, viewer, output>>

----------------------------------------------------------------------------
(* Bounds of the model *)

MaxCalls == 4
MaxSnapNodes == 3
MaxSnapEdges == 2
MaxDeg == 11
MaxExtra == 1
MaxPathEdges == 3
MaxOver == 1

----------------------------------------------------------------------------
(* Python built-ins *)

None == "None"

Range(s) == {s[i] : i \in 1..Len(s)}

\* k in d
DictHas(d, k) == \E i \in 1..Len(d) : d[i][1] = k

\* d[k] for a key that is present
DictAt(d, k) == d[CHOOSE i \in 1..Len(d) : d[i][1] = k][2]

\* d.get(k, default)
DictGet(d, k, default) == IF DictHas(d, k) THEN DictAt(d, k) ELSE default

\* d[k] = v : an existing key keeps its position, a new key goes last
DictSet(d, k, v) ==
    IF DictHas(d, k)
    THEN [i \in 1..Len(d) |-> IF d[i][1] = k THEN <<k, v>> ELSE d[i]]
    ELSE Append(d, <<k, v>>)

\* list(d.keys()), list(d.values())
DictKeys(d) == [i \in 1..Len(d) |-> d[i][1]]
DictValues(d) == [i \in 1..Len(d) |-> d[i][2]]

\* min(S), max(S)
Min(S) == CHOOSE x \in S : \A y \in S : x <= y
Max(S) == CHOOSE x \in S : \A y \in S : x >= y

\* s[:n]
Take(s, n) == SubSeq(s, 1, IF Len(s) < n THEN Len(s) ELSE n)

----------------------------------------------------------------------------
(* GraphBuilder (analyze_codebase.py) *)

\* GraphBuilder.__init__
GraphBuilder_init == [nodes |-> <<>>, edges |-> <<>>, _edge_set |-> {}]

\* add_node that updates a registered node ("Add or update a node")
add_node_overwriting(self, node_id, label, node_type, filepath, line, metadata) ==
    [self |-> [self EXCEPT !.nodes = DictSet(self.nodes, node_id,
                 [id |-> node_id, label |-> label, type |-> node_type,
                  file |-> filepath, line |-> line, metadata |-> metadata])],
     ret |-> node_id]

\* GraphBuilder.add_node: returns the object after the call and the return value
add_node(self, node_id, label, node_type, filepath, line, metadata) ==
    [self |->
        IF ~DictHas(self.nodes, node_id)
        THEN [self EXCEPT !.nodes = DictSet(self.nodes, node_id,
                 [id |-> node_id, label |-> label, type |-> node_type,
                  file |-> filepath, line |-> line, metadata |-> metadata])]
        ELSE self,
     ret |-> node_id]

\* add_edge without the dedup test
add_edge_no_dedup(self, source, target, edge_type, metadata) ==
    LET key == <<source, target, edge_type>> IN
    [self |->
        IF source # target
        THEN [self EXCEPT
                 !._edge_set = self._edge_set \cup {key},
                 !.edges = Append(self.edges,
                     [source |-> source, target |-> target,
                      type |-> edge_type, metadata |-> metadata])]
        ELSE self,
     ret |-> None]

\* add_edge without the self-edge test
add_edge_self_allowed(self, source, target, edge_type, metadata) ==
    LET key == <<source, target, edge_type>> IN
    [self |->
        IF key \notin self._edge_set
        THEN [self EXCEPT
                 !._edge_set = self._edge_set \cup {key},
                 !.edges = Append(self.edges,
                     [source |-> source, target |-> target,
                      type |-> edge_type, metadata |-> metadata])]
        ELSE self,
     ret |-> None]

\* add_edge that stores an edge between registered nodes only
add_edge_registered_only(self, source, target, edge_type, metadata) ==
    LET key == <<source, target, edge_type>> IN
    [self |->
        IF key \notin self._edge_set /\ source # target
           /\ DictHas(self.nodes, source) /\ DictHas(self.nodes, target)
        THEN [self EXCEPT
                 !._edge_set = self._edge_set \cup {key},
                 !.edges = Append(self.edges,
                     [source |-> source, target |-> target,
                      type |-> edge_type, metadata |-> metadata])]
        ELSE self,
     ret |-> None]

\* add_edge whose dedup test takes an edge and its reverse for the same edge
add_edge_undirected(self, source, target, edge_type, metadata) ==
    LET key == <<source, target, edge_type>> IN
    [self |->
        IF key \notin self._edge_set /\ <<target, source, edge_type>> \notin self._edge_set
           /\ source # target
        THEN [self EXCEPT
                 !._edge_set = self._edge_set \cup {key},
                 !.edges = Append(self.edges,
                     [source |-> source, target |-> target,
                      type |-> edge_type, metadata |-> metadata])]
        ELSE self,
     ret |-> None]

\* GraphBuilder.add_edge
add_edge(self, source, target, edge_type, metadata) ==
    LET key == <<source, target, edge_type>> IN
    [self |->
        IF key \notin self._edge_set /\ source # target
        THEN [self EXCEPT
                 !._edge_set = self._edge_set \cup {key},
                 !.edges = Append(self.edges,
                     [source |-> source, target |-> target,
                      type |-> edge_type, metadata |-> metadata])]
        ELSE self,
     ret |-> None]

\* collections.defaultdict(int) / Counter: d[k] += 1
DictInc(d, k) == DictSet(d, k, DictGet(d, k, 0) + 1)

\* the insertion of a sort that puts an item before the items of equal
\* count
RECURSIVE InsertByCount_ties_reversed(_, _)
InsertByCount_ties_reversed(sorted, item) ==
    IF sorted = <<>> THEN <<item>>
    ELSE IF Head(sorted)[2] > item[2]
         THEN <<Head(sorted)>> \o InsertByCount_ties_reversed(Tail(sorted), item)
         ELSE <<item>> \o sorted

\* sorted(items, key=lambda x: -x[1]): a stable sort, largest count first
RECURSIVE InsertByCount(_, _)
InsertByCount(sorted, item) ==
    IF sorted = <<>> THEN <<item>>
    ELSE IF Head(sorted)[2] >= item[2]
         THEN <<Head(sorted)>> \o InsertByCount(Tail(sorted), item)
         ELSE <<item>> \o sorted

RECURSIVE SortedByCountDesc(_)
SortedByCountDesc(items) ==
    IF items = <<>> THEN <<>>
    ELSE InsertByCount(SortedByCountDesc(SubSeq(items, 1, Len(items) - 1)),
                       items[Len(items)])

\* the first and the second half of a list.  A loop over a long list is
\* run over the first half and then, from the state that leaves, over the
\* second half, which keeps the depth of the recursion logarithmic; the
\* test "first = first" makes TLC compute the state after the first half
\* before it enters the second.
FirstHalf(s) == SubSeq(s, 1, Len(s) \div 2)
SecondHalf(s) == SubSeq(s, Len(s) \div 2 + 1, Len(s))

\* the loops of to_json that count the "type" field of every element
RECURSIVE TypeCounts(_, _)
TypeCounts(elems, counts) ==
    IF elems = <<>> THEN counts
    ELSE IF Len(elems) = 1 THEN DictInc(counts, elems[1].type)
    ELSE LET first == TypeCounts(FirstHalf(elems), counts)
         IN IF first = first THEN TypeCounts(SecondHalf(elems), first) ELSE first

\* to_json that exports one edge for every pair of source and target
to_json_one_edge_per_pair(self) ==
    LET first == {i \in DOMAIN self.edges :
                    \A j \in 1..(i - 1) :
                        \/ self.edges[j].source # self.edges[i].source
                        \/ self.edges[j].target # self.edges[i].target}
        edges == SelectSeq(self.edges,
                     LAMBDA e : \E i \in first : self.edges[i] = e)
    IN [project |-> "project",
        stats |-> [total_nodes |-> Len(self.nodes),
                   total_edges |-> Len(edges),
                   node_types |-> SortedByCountDesc(TypeCounts(DictValues(self.nodes), <<>>)),
                   edge_types |-> SortedByCountDesc(TypeCounts(edges, <<>>))],
        nodes |-> DictValues(self.nodes),
        edges |-> edges]

\* GraphBuilder.to_json (the timestamp and the colour tables are constant
\* data no query reads; they are left out)
to_json(self) ==
    [project |-> "project",
     stats |-> [total_nodes |-> Len(self.nodes),
                total_edges |-> Len(self.edges),
                node_types |-> SortedByCountDesc(TypeCounts(DictValues(self.nodes), <<>>)),
                edge_types |-> SortedByCountDesc(TypeCounts(self.edges, <<>>))],
     nodes |-> DictValues(self.nodes),
     edges |-> self.edges]

----------------------------------------------------------------------------
(* The exchange file: json.dump in analyze_codebase.main, json.load in     *)
(* GraphQuery.__init__.  A JSON object is its member list, in the order    *)
(* written; loading an object keeps the last member of each name.          *)

JsonNode(n) ==
    << <<"id", n.id>>, <<"label", n.label>>, <<"type", n.type>>,
       <<"file", n.file>>, <<"line", n.line>>, <<"metadata", n.metadata>> >>

JsonEdge(e) ==
    << <<"source", e.source>>, <<"target", e.target>>, <<"type", e.type>>,
       <<"metadata", e.metadata>> >>

\* json.dump(graph.to_json(), f)
json_dump(d) ==
    [project |-> d.project, stats |-> d.stats,
     nodes |-> [i \in 1..Len(d.nodes) |-> JsonNode(d.nodes[i])],
     edges |-> [i \in 1..Len(d.edges) |-> JsonEdge(d.edges[i])]]

Member(obj, name) ==
    obj[CHOOSE i \in 1..Len(obj) :
            obj[i][1] = name /\ \A j \in (i+1)..Len(obj) : obj[j][1] # name][2]

\* json.load(f)
json_load(doc) ==
    [project |-> doc.project, stats |-> doc.stats,
     nodes |-> [i \in 1..Len(doc.nodes) |->
                  [id |-> Member(doc.nodes[i], "id"),
                   label |-> Member(doc.nodes[i], "label"),
                   type |-> Member(doc.nodes[i], "type"),
                   file |-> Member(doc.nodes[i], "file"),
                   line |-> Member(doc.nodes[i], "line"),
                   metadata |-> Member(doc.nodes[i], "metadata")]],
     edges |-> [i \in 1..Len(doc.edges) |->
                  [source |-> Member(doc.edges[i], "source"),
                   target |-> Member(doc.edges[i], "target"),
                   type |-> Member(doc.edges[i], "type"),
                   metadata |-> Member(doc.edges[i], "metadata")]]]

----------------------------------------------------------------------------
(* GraphQuery (query_graph.py): the index built at load time *)

\* {n["id"]: n for n in self.data["nodes"]}
RECURSIVE NodeTable(_, _)
\* the table that keeps the first record of an id
NodeTable_first_wins(ns, table) ==
    IF ns = <<>> THEN table
    ELSE IF DictHas(table, ns[1].id)
         THEN NodeTable(Tail(ns), table)
         ELSE NodeTable(Tail(ns), DictSet(table, ns[1].id, ns[1]))

NodeTable(ns, table) ==
    IF ns = <<>> THEN table
    ELSE IF Len(ns) = 1 THEN DictSet(table, ns[1].id, ns[1])
    ELSE LET first == NodeTable(FirstHalf(ns), table)
         IN IF first = first THEN NodeTable(SecondHalf(ns), first) ELSE first

\* the ghost filter testing the source only
RECURSIVE KeptEdges_source_only(_, _)
KeptEdges_source_only(es, nodes) ==
    IF es = <<>> THEN <<>>
    ELSE IF Len(es) = 1
         THEN IF DictHas(nodes, es[1].source) THEN es ELSE <<>>
    ELSE KeptEdges_source_only(FirstHalf(es), nodes)
         \o KeptEdges_source_only(SecondHalf(es), nodes)

\* [e for e in self.data["edges"] if e["source"] in nodes and e["target"] in nodes]
RECURSIVE KeptEdges(_, _)
KeptEdges(es, nodes) ==
    IF es = <<>> THEN <<>>
    ELSE IF Len(es) = 1
         THEN IF DictHas(nodes, es[1].source) /\ DictHas(nodes, es[1].target)
              THEN es ELSE <<>>
    ELSE KeptEdges(FirstHalf(es), nodes) \o KeptEdges(SecondHalf(es), nodes)

\* defaultdict(list): d[k].append(x)
DictAppend(d, k, x) == DictSet(d, k, Append(DictGet(d, k, <<>>), x))

\* for e in self.edges: self.outgoing[e["source"]].append((e, e["target"]))
RECURSIVE Outgoing(_, _)
Outgoing(es, d) ==
    IF es = <<>> THEN d
    ELSE IF Len(es) = 1 THEN DictAppend(d, es[1].source, <<es[1], es[1].target>>)
    ELSE LET first == Outgoing(FirstHalf(es), d)
         IN IF first = first THEN Outgoing(SecondHalf(es), first) ELSE first

\* for e in self.edges: self.incoming[e["target"]].append((e, e["source"]))
RECURSIVE Incoming(_, _)
Incoming(es, d) ==
    IF es = <<>> THEN d
    ELSE IF Len(es) = 1 THEN DictAppend(d, es[1].target, <<es[1], es[1].source>>)
    ELSE LET first == Incoming(FirstHalf(es), d)
         IN IF first = first THEN Incoming(SecondHalf(es), first) ELSE first

\* the connection count that counts an edge for its source only
RECURSIVE ConnectionCounts_source_only(_, _)
ConnectionCounts_source_only(es, counts) ==
    IF es = <<>> THEN counts
    ELSE IF Len(es) = 1 THEN DictInc(counts, es[1].source)
    ELSE LET first == ConnectionCounts_source_only(FirstHalf(es), counts)
         IN IF first = first
            THEN ConnectionCounts_source_only(SecondHalf(es), first) ELSE first

\* for e in self.edges: counts[e["source"]] += 1; counts[e["target"]] += 1
RECURSIVE ConnectionCounts(_, _)
ConnectionCounts(es, counts) ==
    IF es = <<>> THEN counts
    ELSE IF Len(es) = 1 THEN DictInc(DictInc(counts, es[1].source), es[1].target)
    ELSE LET first == ConnectionCounts(FirstHalf(es), counts)
         IN IF first = first THEN ConnectionCounts(SecondHalf(es), first) ELSE first

\* GraphQuery.__init__
GraphQuery_init(doc) ==
    LET data == json_load(doc)
        nodes == NodeTable(data.nodes, <<>>)
        edges == KeptEdges(data.edges, nodes)
    IN [data |-> data,
        nodes |-> nodes,
        edges |-> edges,
        _ghost_edges |-> Len(data.edges) - Len(edges),
        outgoing |-> Outgoing(edges, <<>>),
        incoming |-> Incoming(edges, <<>>),
        connection_counts |-> ConnectionCounts(edges, <<>>)]

\* the object before a graph file is loaded
NoGraphQuery ==
    [data |-> [project |-> "", stats |-> <<>>, nodes |-> <<>>, edges |-> <<>>],
     nodes |-> <<>>, edges |-> <<>>, _ghost_edges |-> 0,
     outgoing |-> <<>>, incoming |-> <<>>, connection_counts |-> <<>>]

----------------------------------------------------------------------------
(* GraphQuery helpers *)

\* str.lower() on the characters the model uses
LowerChar(c) == IF c = "A" THEN "a" ELSE IF c = "B" THEN "b" ELSE c
Lower(s) == [i \in 1..Len(s) |-> LowerChar(s[i])]

\* str.strip("/")
RECURSIVE LStrip(_)
LStrip(s) == IF s # <<>> /\ Head(s) = "/" THEN LStrip(Tail(s)) ELSE s
RECURSIVE RStrip(_)
RStrip(s) ==
    IF s # <<>> /\ s[Len(s)] = "/" THEN RStrip(SubSeq(s, 1, Len(s) - 1)) ELSE s
Strip(s) == RStrip(LStrip(s))

\* q in s (substring)
Contains(q, s) ==
    \E i \in 1..(Len(s) - Len(q) + 1) : SubSeq(s, i, i + Len(q) - 1) = q

\* GraphQuery.find_nodes_by_file
RECURSIVE MatchingNodes(_, _)
MatchingNodes(ns, query) ==
    IF ns = <<>> THEN <<>>
    ELSE IF Len(ns) = 1
         THEN LET n == ns[1]
                  file_path == Lower(n.file)
              IN IF Contains(query, file_path) \/ Contains(query, Lower(n.label))
                 THEN <<n>> ELSE <<>>
    ELSE MatchingNodes(FirstHalf(ns), query) \o MatchingNodes(SecondHalf(ns), query)

find_nodes_by_file(self, path_query) ==
    MatchingNodes(DictValues(self.nodes), Lower(Strip(path_query)))

\* get_risk_level with the first threshold exclusive
get_risk_level_exclusive(self, node_id) ==
    LET count == DictGet(self.connection_counts, node_id, 0)
        incoming == Len(DictGet(self.incoming, node_id, <<>>))
        node_type == IF DictHas(self.nodes, node_id)
                     THEN DictAt(self.nodes, node_id).type ELSE ""
    IN IF count > 20 \/ node_type \in {"router", "config"}
       THEN <<"CRITICAL", count, incoming>>
       ELSE IF count >= 10 \/ (incoming >= 5 /\ node_type \in {"collection", "service"})
       THEN <<"HIGH", count, incoming>>
       ELSE IF count >= 4 \/ incoming >= 2
       THEN <<"MEDIUM", count, incoming>>
       ELSE <<"LOW", count, incoming>>

\* get_risk_level with the type test of the second rule not tied to incoming
get_risk_level_type_alone(self, node_id) ==
    LET count == DictGet(self.connection_counts, node_id, 0)
        incoming == Len(DictGet(self.incoming, node_id, <<>>))
        node_type == IF DictHas(self.nodes, node_id)
                     THEN DictAt(self.nodes, node_id).type ELSE ""
    IN IF count >= 20 \/ node_type \in {"router", "config"}
       THEN <<"CRITICAL", count, incoming>>
       ELSE IF count >= 10 \/ incoming >= 5 \/ node_type \in {"collection", "service"}
       THEN <<"HIGH", count, incoming>>
       ELSE IF count >= 4 \/ incoming >= 2
       THEN <<"MEDIUM", count, incoming>>
       ELSE <<"LOW", count, incoming>>

\* GraphQuery.get_risk_level: <<tier, connections, dependents>>
get_risk_level(self, node_id) ==
    LET count == DictGet(self.connection_counts, node_id, 0)
        incoming == Len(DictGet(self.incoming, node_id, <<>>))
        node_type == IF DictHas(self.nodes, node_id)
                     THEN DictAt(self.nodes, node_id).type ELSE ""
    IN IF count >= 20 \/ node_type \in {"router", "config"}
       THEN <<"CRITICAL", count, incoming>>
       ELSE IF count >= 10 \/ (incoming >= 5 /\ node_type \in {"collection", "service"})
       THEN <<"HIGH", count, incoming>>
       ELSE IF count >= 4 \/ incoming >= 2
       THEN <<"MEDIUM", count, incoming>>
       ELSE <<"LOW", count, incoming>>

----------------------------------------------------------------------------
(* GraphQuery commands.  Each command returns its report; the model keeps  *)
(* the report's data (ids, counts, tiers), not its layout.                  *)

NotFound == <<[found |-> FALSE]>>

\* cmd_file: the report of one matched node
FileReport(self, n) ==
    [found |-> TRUE,
     node |-> n.id,
     risk |-> get_risk_level(self, n.id),
     depends_on |-> Len(DictGet(self.outgoing, n.id, <<>>)),
     depended_on_by |-> Len(DictGet(self.incoming, n.id, <<>>))]

\* GraphQuery.cmd_file
cmd_file(self, path) ==
    LET nodes == find_nodes_by_file(self, path)
    IN IF nodes = <<>> THEN NotFound
       ELSE [i \in 1..Len(Take(nodes, 5)) |-> FileReport(self, nodes[i])]

ImpactDepth == 3

\* the for loop without the visited test
RECURSIVE ImpactExpand_revisit(_, _, _)
ImpactExpand_revisit(adj, depth, st) ==
    IF adj = <<>> THEN st
    ELSE LET source_id == Head(adj)[2]
         IN ImpactExpand_revisit(Tail(adj), depth,
                [visited |-> st.visited \cup {source_id},
                 affected |-> DictSet(st.affected, source_id, depth + 1),
                 queue |-> Append(st.queue, <<source_id, depth + 1>>)])

\* cmd_impact: the for loop over the incoming edges of the dequeued node;
\* st = [visited, affected, queue]
RECURSIVE ImpactExpand(_, _, _)
ImpactExpand(adj, depth, st) ==
    IF adj = <<>> THEN st
    ELSE LET source_id == Head(adj)[2]
         IN IF source_id \notin st.visited
            THEN ImpactExpand(Tail(adj), depth,
                     [visited |-> st.visited \cup {source_id},
                      affected |-> DictSet(st.affected, source_id, depth + 1),
                      queue |-> Append(st.queue, <<source_id, depth + 1>>)])
            ELSE ImpactExpand(Tail(adj), depth, st)

\* the iteration that does not expand a node at the depth bound
ImpactIteration_bound_inclusive(self, st) ==
    LET current_id == Head(st.queue)[1]
        depth == Head(st.queue)[2]
        popped == [st EXCEPT !.queue = Tail(st.queue)]
    IN IF depth >= ImpactDepth THEN popped
       ELSE ImpactExpand(DictGet(self.incoming, current_id, <<>>), depth, popped)

\* cmd_impact: one iteration of "while queue"
ImpactIteration(self, st) ==
    LET current_id == Head(st.queue)[1]
        depth == Head(st.queue)[2]
        popped == [st EXCEPT !.queue = Tail(st.queue)]
    IN IF depth > ImpactDepth THEN popped
       ELSE ImpactExpand(DictGet(self.incoming, current_id, <<>>), depth, popped)

\* cmd_impact: by_depth[depth].append(node) for every item of affected
RECURSIVE ByDepth(_, _, _)
ByDepth(self, items, by_depth) ==
    IF items = <<>> THEN by_depth
    ELSE ByDepth(self, Tail(items),
             DictAppend(by_depth, Head(items)[2],
                 IF DictHas(self.nodes, Head(items)[1])
                 THEN DictAt(self.nodes, Head(items)[1]).id ELSE "?"))

\* sorted(by_depth.keys())
RECURSIVE InsertAscending(_, _)
InsertAscending(sorted, k) ==
    IF sorted = <<>> THEN <<k>>
    ELSE IF Head(sorted) <= k THEN <<Head(sorted)>> \o InsertAscending(Tail(sorted), k)
    ELSE <<k>> \o sorted

RECURSIVE SortedKeys(_)
SortedKeys(keys) ==
    IF keys = <<>> THEN <<>>
    ELSE InsertAscending(SortedKeys(Tail(keys)), Head(keys))

LevelLabel(depth) ==
    <<"Direct dependents", "2nd-level impact", "3rd-level impact">>[
        (IF depth - 1 < 2 THEN depth - 1 ELSE 2) + 1]

\* cmd_impact: the report of one analysed node
ImpactReport(self, n, aff) ==
    LET by_depth == ByDepth(self, aff, <<>>)
        depths == SortedKeys(DictKeys(by_depth))
    IN [found |-> TRUE,
        node |-> n.id,
        risk |-> get_risk_level(self, n.id),
        levels |-> [i \in 1..Len(depths) |->
                      [depth |-> depths[i],
                       label |-> LevelLabel(depths[i]),
                       count |-> Len(DictAt(by_depth, depths[i])),
                       nodes |-> Take(DictAt(by_depth, depths[i]), 10)]],
        total_affected |-> Len(aff),
        depends_on |-> Len(DictGet(self.outgoing, n.id, <<>>))]

\* cmd_cluster: the two for loops over the edges of the dequeued node;
\* st = [visited, queue]
RECURSIVE ClusterExpand(_, _)
ClusterExpand(adj, st) ==
    IF adj = <<>> THEN st
    ELSE LET tid == Head(adj)[2]
         IN IF tid \notin st.visited
            THEN ClusterExpand(Tail(adj),
                     [visited |-> st.visited \cup {tid}, queue |-> Append(st.queue, tid)])
            ELSE ClusterExpand(Tail(adj), st)

\* the cluster BFS that follows outgoing edges only
ClusterIteration_outgoing_only(self, st) ==
    LET current == Head(st.queue)
        popped == [st EXCEPT !.queue = Tail(st.queue)]
    IN ClusterExpand(DictGet(self.outgoing, current, <<>>), popped)

\* cmd_cluster: one iteration of "while queue"
ClusterIteration(self, st) ==
    LET current == Head(st.queue)
        popped == [st EXCEPT !.queue = Tail(st.queue)]
    IN ClusterExpand(DictGet(self.incoming, current, <<>>),
           ClusterExpand(DictGet(self.outgoing, current, <<>>), popped))

\* cmd_cluster: the report (the listing order of a Python set is not fixed,
\* so the cluster is reported as a set)
ClusterReport(self, target, vis) ==
    LET cluster_nodes == {nid \in vis : DictHas(self.nodes, nid)}
    IN <<[found |-> TRUE, node |-> target.id,
          cluster |-> cluster_nodes, size |-> Cardinality(cluster_nodes)]>>

\* cmd_path: the safety limit on the size of the visited set
PathLimit == 500

\* cmd_path: a for loop over the edges of the dequeued node; every queue
\* entry carries the whole path to its node; st = [visited, queue]
RECURSIVE PathExpand(_, _, _)
PathExpand(adj, path, st) ==
    IF adj = <<>> THEN st
    ELSE IF Len(adj) = 1
         THEN LET tid == adj[1][2]
              IN IF tid \notin st.visited
                 THEN [visited |-> st.visited \cup {tid},
                       queue |-> Append(st.queue, <<tid, Append(path, tid)>>)]
                 ELSE st
    ELSE LET first == PathExpand(FirstHalf(adj), path, st)
         IN IF first = first THEN PathExpand(SecondHalf(adj), path, first) ELSE first

\* the path BFS that follows outgoing edges only
PathIteration_outgoing_only(self, ends, st) ==
    LET current == Head(st.queue)[1]
        path == Head(st.queue)[2]
        popped == [visited |-> st.visited, queue |-> Tail(st.queue)]
    IN IF current \in ends
       THEN [visited |-> popped.visited, queue |-> popped.queue,
             status |-> "found", current |-> current, path |-> path]
       ELSE LET ex == PathExpand(DictGet(self.outgoing, current, <<>>), path, popped)
            IN [visited |-> ex.visited, queue |-> ex.queue,
                status |-> IF Cardinality(ex.visited) > PathLimit
                           THEN "break" ELSE "searching",
                current |-> current, path |-> path]

\* the path BFS that gives up as soon as the limit is reached
PathIteration_limit_inclusive(self, ends, st) ==
    LET current == Head(st.queue)[1]
        path == Head(st.queue)[2]
        popped == [visited |-> st.visited, queue |-> Tail(st.queue)]
    IN IF current \in ends
       THEN [visited |-> popped.visited, queue |-> popped.queue,
             status |-> "found", current |-> current, path |-> path]
       ELSE LET ex == PathExpand(DictGet(self.incoming, current, <<>>), path,
                          PathExpand(DictGet(self.outgoing, current, <<>>), path, popped))
            IN [visited |-> ex.visited, queue |-> ex.queue,
                status |-> IF Cardinality(ex.visited) >= PathLimit
                           THEN "break" ELSE "searching",
                current |-> current, path |-> path]

\* the path BFS without the safety limit
PathIteration_no_limit(self, ends, st) ==
    LET current == Head(st.queue)[1]
        path == Head(st.queue)[2]
        popped == [visited |-> st.visited, queue |-> Tail(st.queue)]
    IN IF current \in ends
       THEN [visited |-> popped.visited, queue |-> popped.queue,
             status |-> "found", current |-> current, path |-> path]
       ELSE LET ex == PathExpand(DictGet(self.incoming, current, <<>>), path,
                          PathExpand(DictGet(self.outgoing, current, <<>>), path, popped))
            IN [visited |-> ex.visited, queue |-> ex.queue,
                status |-> "searching", current |-> current, path |-> path]

\* cmd_path: one iteration of "while queue".  status tells how it ended:
\* "found" (return of the path), "break" (safety limit) or "searching"
PathIteration(self, ends, st) ==
    LET current == Head(st.queue)[1]
        path == Head(st.queue)[2]
        popped == [visited |-> st.visited, queue |-> Tail(st.queue)]
    IN IF current \in ends
       THEN [visited |-> popped.visited, queue |-> popped.queue,
             status |-> "found", current |-> current, path |-> path]
       ELSE LET ex == PathExpand(DictGet(self.incoming, current, <<>>), path,
                          PathExpand(DictGet(self.outgoing, current, <<>>), path, popped))
            IN [visited |-> ex.visited, queue |-> ex.queue,
                status |-> IF Cardinality(ex.visited) > PathLimit
                           THEN "break" ELSE "searching",
                current |-> current, path |-> path]

\* cmd_path: "for e, tid in adjacency: if tid == next_id: ...; break": the
\* type of the first entry that leads to next_id, as a list of 0 or 1 types
RECURSIVE FirstEdgeTo(_, _)
FirstEdgeTo(adj, next_id) ==
    IF adj = <<>> THEN <<>>
    ELSE IF Head(adj)[2] = next_id THEN <<Head(adj)[1].type>>
         ELSE FirstEdgeTo(Tail(adj), next_id)

\* the hop annotation that looks at outgoing edges only
HopAnnotations_outgoing_only(self, nid, next_id) ==
    LET out == FirstEdgeTo(DictGet(self.outgoing, nid, <<>>), next_id)
    IN IF out # <<>> THEN <<[direction |-> "down", type |-> out[1]]>> ELSE <<>>

\* cmd_path: the lines appended between path[i] and path[i + 1]: the for /
\* else over the outgoing edges, then the for over the incoming edges
HopAnnotations(self, nid, next_id) ==
    LET out == FirstEdgeTo(DictGet(self.outgoing, nid, <<>>), next_id)
    IN IF out # <<>>
       THEN <<[direction |-> "down", type |-> out[1]]>>
       ELSE LET inc == FirstEdgeTo(DictGet(self.incoming, nid, <<>>), next_id)
            IN IF inc # <<>>
               THEN <<[direction |-> "up", type |-> inc[1]]>>
               ELSE <<>>

\* cmd_path: the report of a found path
PathReport(self, start, current, path) ==
    <<[found |-> TRUE, from |-> start.id, to |-> current, path |-> path,
       hops |-> [i \in 1..(Len(path) - 1) |->
                    HopAnnotations(self, path[i], path[i + 1])]]>>

\* cmd_path: "No nodes found matching ..." and "No path found between ..."
NoNodesFound(arg) == <<[found |-> FALSE, reason |-> "no nodes", arg |-> arg]>>
NoPathFound == <<[found |-> FALSE, reason |-> "no path"]>>

\* cmd_dead_code: how many nodes a group / the second list shows without --all
IsolatedShown == 8
NoDependentsShown == 15

\* the endpoints of all edges of the file, ghost edges included
ConnectedIds_all_edges(self) ==
    {self.data.edges[i].source : i \in 1..Len(self.data.edges)}
    \cup {self.data.edges[i].target : i \in 1..Len(self.data.edges)}

\* cmd_dead_code: the endpoints of the kept edges
ConnectedIds(self) ==
    {self.edges[i].source : i \in 1..Len(self.edges)}
    \cup {self.edges[i].target : i \in 1..Len(self.edges)}

\* cmd_dead_code: "by_type[n["type"]].append(n)" for every n of a list
RECURSIVE GroupByType(_, _)
GroupByType(ns, by_type) ==
    IF ns = <<>> THEN by_type
    ELSE GroupByType(Tail(ns), DictAppend(by_type, Head(ns).type, Head(ns)))

\* sorted(by_type.items(), key=lambda x: -len(x[1])): the keys, the longest
\* list first
KeysByLenDesc(by_type) ==
    DictKeys(SortedByCountDesc([i \in 1..Len(by_type) |->
                                   <<by_type[i][1], Len(by_type[i][2])>>]))

IdsOf(ns) == [i \in 1..Len(ns) |-> ns[i].id]

\* cmd_dead_code: the list "isolated"
Isolated(self) ==
    LET connected == ConnectedIds(self)
    IN SelectSeq(DictValues(self.nodes),
           LAMBDA n : n.id \notin connected /\ n.type \notin {"config"})

\* the list "no_dependents" without the exclusion of test and script nodes
NoDependents_tests_included(self) ==
    LET connected == ConnectedIds(self)
    IN SelectSeq(DictValues(self.nodes),
           LAMBDA n : /\ n.id \in connected
                      /\ DictGet(self.incoming, n.id, <<>>) = <<>>
                      /\ DictGet(self.outgoing, n.id, <<>>) # <<>>
                      /\ n.type \notin {"config"})

\* cmd_dead_code: the list "no_dependents"
NoDependents(self) ==
    LET connected == ConnectedIds(self)
    IN SelectSeq(DictValues(self.nodes),
           LAMBDA n : /\ n.id \in connected
                      /\ DictGet(self.incoming, n.id, <<>>) = <<>>
                      /\ DictGet(self.outgoing, n.id, <<>>) # <<>>
                      /\ n.type \notin {"config", "test", "script"})

\* cmd_dead_code: the data of the report
DeadCodeReport(self, show_all) ==
    LET isolated == Isolated(self)
        no_dependents == NoDependents(self)
        by_type == GroupByType(isolated, <<>>)
        order == KeysByLenDesc(by_type)
    IN [show_all |-> show_all,
        isolated_count |-> Len(isolated),
        groups |-> [i \in 1..Len(order) |->
                      LET type_nodes == DictAt(by_type, order[i])
                          limit == IF show_all \/ Len(type_nodes) < IsolatedShown
                                   THEN Len(type_nodes) ELSE IsolatedShown
                      IN [type |-> order[i],
                          count |-> Len(type_nodes),
                          shown |-> IdsOf(Take(type_nodes, limit)),
                          more |-> IF ~show_all /\ Len(type_nodes) > IsolatedShown
                                   THEN Len(type_nodes) - IsolatedShown ELSE 0]],
        no_dependents_count |-> Len(no_dependents),
        no_dependents_shown |->
            IdsOf(Take(no_dependents,
                       IF show_all \/ Len(no_dependents) < NoDependentsShown
                       THEN Len(no_dependents) ELSE NoDependentsShown)),
        no_dependents_more |->
            IF ~show_all /\ Len(no_dependents) > NoDependentsShown
            THEN Len(no_dependents) - NoDependentsShown ELSE 0]

\* cmd_dead_code reading the adjacency of every connected node by subscript,
\* which makes a defaultdict insert the keys it does not hold
cmd_dead_code_subscript(self, show_all) ==
    LET connected == ConnectedIds(self)
        ids == DictKeys(self.nodes)
        Touch(d) == d \o SelectSeq([i \in 1..Len(ids) |-> <<ids[i], <<>> >>],
                            LAMBDA kv : kv[1] \in connected /\ ~DictHas(d, kv[1]))
    IN [self |-> [self EXCEPT !.incoming = Touch(self.incoming),
                              !.outgoing = Touch(self.outgoing)],
        ret |-> <<DeadCodeReport(self, show_all)>>]

\* GraphQuery.cmd_dead_code: the object after the call and the report
cmd_dead_code(self, show_all) ==
    [self |-> self, ret |-> <<DeadCodeReport(self, show_all)>>]

\* cmd_risky_files: the type factor, in tenths
TypeFactor(type) ==
    IF type \in {"collection", "service"} THEN 15
    ELSE IF type \in {"router", "config"} THEN 20
    ELSE IF type = "test" THEN 1
    ELSE 10

\* the score without the boost for the type of the node
RiskScore_no_type_factor(self, nid, n) ==
    LET incoming == Len(DictGet(self.incoming, nid, <<>>))
        outgoing == Len(DictGet(self.outgoing, nid, <<>>))
        total == DictGet(self.connection_counts, nid, 0)
    IN (incoming * 3 + outgoing * 1 + total) * 10

\* the score that weighs an incoming edge like an outgoing one
RiskScore_unweighted(self, nid, n) ==
    LET incoming == Len(DictGet(self.incoming, nid, <<>>))
        outgoing == Len(DictGet(self.outgoing, nid, <<>>))
        total == DictGet(self.connection_counts, nid, 0)
    IN (incoming * 1 + outgoing * 1 + total) * TypeFactor(n.type)

\* cmd_risky_files: the score of a node, in tenths.  The scores are floats
\* in the code; an integer times 1.5 or 2.0 is exact, and an integer below
\* 2000 times 0.1 compares with every multiple of 0.5 and with every other
\* such product as the exact tenths do.
RiskScore(self, nid, n) ==
    LET incoming == Len(DictGet(self.incoming, nid, <<>>))
        outgoing == Len(DictGet(self.outgoing, nid, <<>>))
        total == DictGet(self.connection_counts, nid, 0)
    IN (incoming * 3 + outgoing * 1 + total) * TypeFactor(n.type)

\* main: "args.top or 20"
RiskyTopDefault == 20

\* GraphQuery.cmd_risky_files: the object after the call and the ranking
cmd_risky_files(self, top) ==
    LET risk_scores == [i \in 1..Len(self.nodes) |->
                           <<self.nodes[i][1],
                             RiskScore(self, self.nodes[i][1], self.nodes[i][2])>>]
        ranked == Take(SortedByCountDesc(risk_scores), top)
    IN [self |-> self,
        ret |-> <<[top |-> top,
                   ranking |-> [i \in 1..Len(ranked) |->
                       [node |-> ranked[i][1],
                        score |-> ranked[i][2],
                        risk |-> get_risk_level(self, ranked[i][1])[1],
                        dependents |->
                            Len(DictGet(self.incoming, ranked[i][1], <<>>))]]]>>]


\* the order of str on the edge types the model uses
StrOrder == <<"calls", "db_read", "db_write", "imports">>
StrRank(s) == CHOOSE i \in 1..Len(StrOrder) : StrOrder[i] = s

\* sorted(by_type.items()): smallest key first
RECURSIVE InsertByKey(_, _)
InsertByKey(sorted, item) ==
    IF sorted = <<>> THEN <<item>>
    ELSE IF StrRank(Head(sorted)[1]) <= StrRank(item[1])
         THEN <<Head(sorted)>> \o InsertByKey(Tail(sorted), item)
         ELSE <<item>> \o sorted

RECURSIVE SortedByKey(_)
SortedByKey(items) ==
    IF items = <<>> THEN <<>>
    ELSE InsertByKey(SortedByKey(SubSeq(items, 1, Len(items) - 1)),
                     items[Len(items)])

\* f"{t.get('label', '?')} ({t.get('file', '')})"
LabelAndFile(self, nid) ==
    IF DictHas(self.nodes, nid)
    THEN <<DictAt(self.nodes, nid).label, DictAt(self.nodes, nid).file>>
    ELSE << <<"?">>, <<>> >>

\* cmd_deps / cmd_dependents: by_type[e["type"]].append(...) over an
\* adjacency list
RECURSIVE EdgesByType(_, _, _)
EdgesByType(self, adj, by_type) ==
    IF adj = <<>> THEN by_type
    ELSE EdgesByType(self, Tail(adj),
             DictAppend(by_type, Head(adj)[1].type, LabelAndFile(self, Head(adj)[2])))

\* the report of one node: no group stands for "No outgoing dependencies"
DepsReport(self, n, adj) ==
    [found |-> TRUE, node |-> n.id,
     groups |-> SortedByKey(EdgesByType(self, adj, <<>>))]

\* GraphQuery.cmd_deps
cmd_deps(self, path) ==
    LET nodes == find_nodes_by_file(self, path)
    IN [self |-> self,
        ret |-> IF nodes = <<>> THEN NotFound
                ELSE [i \in 1..Len(Take(nodes, 3)) |->
                        DepsReport(self, nodes[i],
                                   DictGet(self.outgoing, nodes[i].id, <<>>))]]

\* GraphQuery.cmd_dependents
cmd_dependents(self, path) ==
    LET nodes == find_nodes_by_file(self, path)
    IN [self |-> self,
        ret |-> IF nodes = <<>> THEN NotFound
                ELSE [i \in 1..Len(Take(nodes, 3)) |->
                        DepsReport(self, nodes[i],
                                   DictGet(self.incoming, nodes[i].id, <<>>))]]

\* the ids on the far side of an adjacency list
NeighbourIds(adj) == [i \in 1..Len(adj) |-> adj[i][2]]

\* GraphQuery.cmd_model
cmd_model(self, name) ==
    LET model_nodes ==
            SelectSeq(DictValues(self.nodes),
                LAMBDA n : n.type = "collection" /\ Contains(Lower(name), Lower(n.label)))
    IN [self |-> self,
        ret |-> IF model_nodes = <<>> THEN NotFound
                ELSE [i \in 1..Len(model_nodes) |->
                        LET mn == model_nodes[i]
                            inc == DictGet(self.incoming, mn.id, <<>>)
                            other == SelectSeq(inc,
                                LAMBDA p : p[1].type \notin {"db_read", "db_write"})
                        IN [found |-> TRUE, node |-> mn.id,
                            risk |-> get_risk_level(self, mn.id),
                            readers |-> NeighbourIds(SelectSeq(inc,
                                            LAMBDA p : p[1].type = "db_read")),
                            writers |-> NeighbourIds(SelectSeq(inc,
                                            LAMBDA p : p[1].type = "db_write")),
                            other_count |-> Len(other),
                            other |-> NeighbourIds(Take(other, 10))]]]

\* Counter.most_common(n): the n largest counts, equal counts in the order
\* of insertion
most_common(counter, n) == Take(SortedByCountDesc(counter), n)

\* main: "args.top or 15"
HubsTopDefault == 15

\* GraphQuery.cmd_hubs
cmd_hubs(self, top) ==
    LET ranked == most_common(self.connection_counts, top)
    IN [self |-> self,
        ret |-> <<[top |-> top,
                   hubs |-> [i \in 1..Len(ranked) |->
                       [node |-> ranked[i][1],
                        risk |-> get_risk_level(self, ranked[i][1])[1],
                        count |-> ranked[i][2],
                        incoming |-> Len(DictGet(self.incoming, ranked[i][1], <<>>)),
                        outgoing |-> Len(DictGet(self.outgoing, ranked[i][1], <<>>))]]]>>]

\* GraphQuery.cmd_search
cmd_search(self, query) ==
    LET q == Lower(query)
        found == SelectSeq(DictValues(self.nodes),
                     LAMBDA n : Contains(q, Lower(n.label)) \/ Contains(q, Lower(n.file)))
    IN [self |-> self,
        ret |-> IF found = <<>> THEN NotFound
                ELSE <<[found |-> TRUE, count |-> Len(found),
                        shown |-> [i \in 1..Len(Take(found, 20)) |->
                            [node |-> found[i].id,
                             risk |-> get_risk_level(self, found[i].id)[1],
                             connections |->
                                 DictGet(self.connection_counts, found[i].id, 0)]],
                        more |-> IF Len(found) > 20 THEN Len(found) - 20 ELSE 0]>>]

\* GraphQuery.cmd_stats
cmd_stats(self) ==
    LET stats == self.data.stats
    IN [self |-> self,
        ret |-> <<[project |-> self.data.project,
                   nodes |-> stats.total_nodes,
                   edges |-> Len(self.edges),
                   ghost_edges |-> self._ghost_edges,
                   node_types |-> SortedByCountDesc(stats.node_types),
                   edge_types |-> SortedByCountDesc(stats.edge_types),
                   hubs |-> most_common(self.connection_counts, 5)]>>]

\* cmd_endpoint: max_depth of the chain
TraceMaxDepth == 4

\* GraphQuery._trace_chain: st holds the output lines and the visited set
RECURSIVE _trace_chain(_, _, _, _)
RECURSIVE TraceEdges(_, _, _, _)
\* _trace_chain without the visited test
_trace_chain_no_visited(self, node_id, st, depth) ==
    IF depth > TraceMaxDepth THEN st
    ELSE TraceEdges(self, DictGet(self.outgoing, node_id, <<>>),
                    [st EXCEPT !.visited = @ \cup {node_id}], depth)

\* GraphQuery._trace_chain
_trace_chain(self, node_id, st, depth) ==
    IF depth > TraceMaxDepth \/ node_id \in st.visited THEN st
    ELSE TraceEdges(self, DictGet(self.outgoing, node_id, <<>>),
                    [st EXCEPT !.visited = @ \cup {node_id}], depth)

\* _trace_chain: the loop over the outgoing edges of a node
TraceEdges(self, adj, st, depth) ==
    IF adj = <<>> THEN st
    ELSE LET e == Head(adj)[1]
             tid == Head(adj)[2]
             after == IF DictHas(self.nodes, tid)
                      THEN _trace_chain(self, tid,
                               [st EXCEPT !.output = Append(@,
                                   [depth |-> depth, type |-> e.type, node |-> tid])],
                               depth + 1)
                      ELSE st
         IN TraceEdges(self, Tail(adj), after, depth)

\* GraphQuery.cmd_endpoint
cmd_endpoint(self, path) ==
    LET nodes == find_nodes_by_file(self, path)
        by_file == SelectSeq(nodes, LAMBDA n : n.type = "endpoint")
        endpoints == IF by_file # <<>> THEN by_file
                     ELSE SelectSeq(DictValues(self.nodes),
                              LAMBDA n : n.type = "endpoint"
                                         /\ Contains(Lower(path), Lower(n.label)))
    IN [self |-> self,
        ret |-> IF endpoints = <<>> THEN NotFound
                ELSE [i \in 1..Len(Take(endpoints, 5)) |->
                        [found |-> TRUE, node |-> endpoints[i].id,
                         chain |-> _trace_chain(self, endpoints[i].id,
                                       [output |-> <<>>, visited |-> {}], 0).output]]]

\* file_path.split("/")[0]
RECURSIVE TopDir(_)
TopDir(file_path) ==
    IF file_path = <<>> \/ Head(file_path) = "/" THEN <<>>
    ELSE <<Head(file_path)>> \o TopDir(Tail(file_path))

\* cmd_overview: the loop that fills dir_groups
RECURSIVE DirGroups(_, _)
DirGroups(ns, dir_groups) ==
    IF ns = <<>> THEN dir_groups
    ELSE LET top_dir == TopDir(Head(ns).file)
             info == DictGet(dir_groups, top_dir, [count |-> 0, types |-> <<>>])
         IN DirGroups(Tail(ns),
                DictSet(dir_groups, top_dir,
                    [count |-> info.count + 1,
                     types |-> DictInc(info.types, Head(ns).type)]))

\* cmd_overview: the architectural layers
Layers ==
    << <<"API Layer", <<"endpoint", "router", "serializer", "middleware">> >>,
       <<"Business Logic", <<"service", "task", "utility">> >>,
       <<"Data Layer", <<"collection", "cache_key">> >>,
       <<"Frontend", <<"component", "template">> >>,
       <<"Integration", <<"webhook", "external_api", "event">> >>,
       <<"Quality", <<"test">> >> >>

\* sum(type_counts.get(t, 0) for t in types)
RECURSIVE SumCounts(_, _)
SumCounts(type_counts, types) ==
    IF types = <<>> THEN 0
    ELSE DictGet(type_counts, Head(types), 0) + SumCounts(type_counts, Tail(types))

\* GraphQuery.cmd_overview
cmd_overview(self) ==
    LET stats == self.data.stats
        dir_groups == DirGroups(DictValues(self.nodes), <<>>)
        by_count == SortedByCountDesc([i \in 1..Len(dir_groups) |->
                        <<dir_groups[i][1], dir_groups[i][2].count>>])
        type_counts == stats.node_types
    IN [self |-> self,
        ret |-> <<[project |-> self.data.project,
                   nodes |-> stats.total_nodes,
                   edges |-> stats.total_edges,
                   directories |->
                       [i \in 1..Len(SelectSeq(by_count, LAMBDA d : d[2] >= 2)) |->
                           LET d == SelectSeq(by_count, LAMBDA x : x[2] >= 2)[i]
                           IN [dir |-> d[1], count |-> d[2],
                               types |-> most_common(DictAt(dir_groups, d[1]).types, 3)]],
                   relationships |-> SortedByCountDesc(stats.edge_types),
                   layers |-> SelectSeq(
                       [i \in 1..Len(Layers) |->
                           [layer |-> Layers[i][1],
                            count |-> SumCounts(type_counts, Layers[i][2]),
                            detail |-> SelectSeq(
                                [j \in 1..Len(Layers[i][2]) |->
                                    <<Layers[i][2][j],
                                      DictGet(type_counts, Layers[i][2][j], 0)>>],
                                LAMBDA p : p[2] > 0)]],
                       LAMBDA l : l.count > 0)]>>]

\* cmd_report: the nodes with an edge to or from a test node
TestConnected(self) ==
    {self.edges[i].target : i \in {j \in 1..Len(self.edges) :
        DictHas(self.nodes, self.edges[j].source)
        /\ DictAt(self.nodes, self.edges[j].source).type = "test"}}
    \cup {self.edges[i].source : i \in {j \in 1..Len(self.edges) :
        DictHas(self.nodes, self.edges[j].target)
        /\ DictAt(self.nodes, self.edges[j].target).type = "test"}}

\* GraphQuery.cmd_report: the commands it calls run one after the other on
\* the same object
cmd_report(self) ==
    LET overview == cmd_overview(self)
        risky == cmd_risky_files(overview.self, 10)
        hubs == cmd_hubs(risky.self, 10)
        me == hubs.self
        by_type == GroupByType(Isolated(me), <<>>)
        order == KeysByLenDesc(by_type)
        test_connected == TestConnected(me)
        gaps == SelectSeq(most_common(me.connection_counts, 50),
                    LAMBDA p : /\ p[2] >= 8
                               /\ DictGet(me.nodes, p[1], [type |-> None]).type
                                      \notin {"test", "config", "router", "component"}
                               /\ p[1] \notin test_connected)
    IN [self |-> me,
        ret |-> <<[overview |-> overview.ret,
                   ghost_edges |-> me._ghost_edges,
                   risky_files |-> risky.ret,
                   hubs |-> hubs.ret,
                   isolated_count |-> Len(Isolated(me)),
                   isolated |-> [i \in 1..Len(order) |->
                       LET nodes == DictAt(by_type, order[i])
                       IN [type |-> order[i], count |-> Len(nodes),
                           shown |-> IdsOf(Take(nodes, 5)),
                           more |-> IF Len(nodes) > 5 THEN Len(nodes) - 5 ELSE 0]],
                   gaps |-> [i \in 1..Len(Take(gaps, 10)) |->
                       [node |-> gaps[i][1],
                        risk |-> get_risk_level(me, gaps[i][1])[1]]]]>>]

\* the loop of cmd_changes leaving at the first path that matches no node
RECURSIVE ChangesLoop_stops_at_unmatched(_, _, _)
ChangesLoop_stops_at_unmatched(self, paths, st) ==
    IF paths = <<>> THEN st
    ELSE LET nodes == find_nodes_by_file(self, Head(paths))
             n == nodes[1]
             inc == DictGet(self.incoming, n.id, <<>>)
         IN IF nodes = <<>>
            THEN [st EXCEPT !.output = Append(@, [found |-> FALSE])]
            ELSE ChangesLoop_stops_at_unmatched(self, Tail(paths),
                     [output |-> Append(st.output,
                         [found |-> TRUE, node |-> n.id,
                          risk |-> get_risk_level(self, n.id)[1],
                          incoming |-> Len(inc),
                          outgoing |-> Len(DictGet(self.outgoing, n.id, <<>>))]),
                      all_affected |-> st.all_affected \cup Range(NeighbourIds(inc))])

\* cmd_changes: the loop over the paths; st holds the output lines and the
\* set all_affected
RECURSIVE ChangesLoop(_, _, _)
ChangesLoop(self, paths, st) ==
    IF paths = <<>> THEN st
    ELSE LET nodes == find_nodes_by_file(self, Head(paths))
             n == nodes[1]
             inc == DictGet(self.incoming, n.id, <<>>)
         IN ChangesLoop(self, Tail(paths),
                IF nodes = <<>>
                THEN [st EXCEPT !.output = Append(@, [found |-> FALSE])]
                ELSE [output |-> Append(st.output,
                         [found |-> TRUE, node |-> n.id,
                          risk |-> get_risk_level(self, n.id)[1],
                          incoming |-> Len(inc),
                          outgoing |-> Len(DictGet(self.outgoing, n.id, <<>>))]),
                      all_affected |-> st.all_affected \cup Range(NeighbourIds(inc))])

\* GraphQuery.cmd_changes.  The groups of the affected nodes are filled in
\* the iteration order of a set, which Python does not fix: the model keeps
\* the members of each group, not their order.
cmd_changes(self, paths) ==
    LET st == ChangesLoop(self, paths, [output |-> <<>>, all_affected |-> {}])
        TypeOfId(nid) == DictGet(self.nodes, nid, [type |-> "?"]).type
    IN [self |-> self,
        ret |-> IF paths = <<>> THEN <<[found |-> FALSE]>>
                ELSE <<[files |-> st.output,
                        total |-> Cardinality(st.all_affected),
                        by_type |-> {[type |-> t,
                                      nodes |-> {nid \in st.all_affected : TypeOfId(nid) = t}] :
                                     t \in {TypeOfId(nid) : nid \in st.all_affected}}]>>]

----------------------------------------------------------------------------
(* The build run: the extractors call add_node / add_edge, then main writes *)
(* the graph file.                                                           *)

NodeIds == {"A", "B"}
EdgeTypes == {"imports", "calls"}
Metadatas == {<<>>, << <<"line", 7>> >>}

\* the attribute bundles an extractor passes to add_node
NodeArgs ==
    {[label |-> <<"a">>, type |-> "file", file |-> <<"a">>, line |-> 0,
      metadata |-> <<>>],
     [label |-> <<"b">>, type |-> "service", file |-> <<"b">>, line |-> 7,
      metadata |-> << <<"framework", "x">> >>]}

\* the page before init() has run
NoViewer ==
    [loaded |-> FALSE, nodes |-> <<>>, nodeMap |-> <<>>, edges |-> <<>>,
     S |-> [nodeFilters |-> <<>>, edgeFilters |-> <<>>, search |-> <<>>],
     visible |-> 0, clusters |-> 0, hovered |-> 0, risk |-> None]

NoFile == [project |-> "", stats |-> <<>>, nodes |-> <<>>, edges |-> <<>>]

IdleQuery ==
    /\ gq = NoGraphQuery
    /\ matches = <<>>
    /\ idx = 0
    /\ queue = <<>>
    /\ visited = {}
    /\ affected = <<>>
    /\ end_ids = {}
    /\ exit_code = None
    /\ viewer = NoViewer
    /\ output = <<>>

Init ==
    /\ builder = GraphBuilder_init
    /\ call = [op |-> "init"]
    /\ calls = 0
    /\ phase = "build"
    /\ graph_file = NoFile
    /\ IdleQuery

AddNode ==
    /\ phase = "build"
    /\ calls < MaxCalls
    /\ \E node_id \in NodeIds, a \in NodeArgs :
          LET r == add_node(builder, node_id, a.label, a.type, a.file, a.line, a.metadata)
          IN /\ builder' = r.self
             /\ call' = [op |-> "add_node", node_id |-> node_id, args |-> a,
                         ret |-> r.ret]
    /\ calls' = calls + 1
    /\ UNCHANGED <<phase, graph_file, exit_code, viewer, gq, tvars>>

AddEdge ==
    /\ phase = "build"
    /\ calls < MaxCalls
    /\ \E source \in NodeIds, target \in NodeIds, edge_type \in EdgeTypes,
          metadata \in Metadatas :
          LET r == add_edge(builder, source, target, edge_type, metadata)
          IN /\ builder' = r.self
             /\ call' = [op |-> "add_edge", source |-> source, target |-> target,
                         type |-> edge_type, metadata |-> metadata, ret |-> r.ret]
    /\ calls' = calls + 1
    /\ UNCHANGED <<phase, graph_file, exit_code, viewer, gq, tvars>>

\* main: json.dump(graph.to_json(), f)
WriteGraph ==
    /\ phase = "build"
    /\ graph_file' = json_dump(to_json(builder))
    /\ phase' = "written"
    /\ call' = [op |-> "to_json"]
    /\ UNCHANGED <<builder, calls, exit_code, viewer, gq, tvars>>

Next == AddNode \/ AddEdge \/ WriteGraph

Spec == Init /\ [][Next]_vars

----------------------------------------------------------------------------
(* Claims about the builder *)

EdgeKey(e) == <<e.source, e.target, e.type>>

UniqueKeys(es) ==
    \A i, j \in 1..Len(es) : EdgeKey(es[i]) = EdgeKey(es[j]) => i = j

IsAddEdgeStep == calls' = calls + 1 /\ call'.op = "add_edge"
IsAddNodeStep == calls' = calls + 1 /\ call'.op = "add_node"

\* C1: the builder's edge list, and the edge list of the exported file, hold
\* at most one edge per (source, target, type); an add_edge call whose key is
\* already stored leaves the edge list (so also the first edge's metadata)
\* as it was, whatever metadata the call carries.
C1_OneEdgePerKey ==
    [][/\ UniqueKeys(builder'.edges)
       /\ phase' = "written" => UniqueKeys(json_load(graph_file').edges)
       /\ (IsAddEdgeStep /\ \E i \in 1..Len(builder.edges) :
               EdgeKey(builder.edges[i]) = EdgeKey(call'))
          => builder'.edges = builder.edges]_vars

\* a repeated key arrived with metadata other than the stored edge's
C1_Witness ==
    /\ call.op = "add_edge"
    /\ \E i \in 1..Len(builder.edges) :
          /\ EdgeKey(builder.edges[i]) = EdgeKey(call)
          /\ builder.edges[i].metadata # call.metadata

\* C2: no edge with source = target is ever in the builder's edge list, in
\* the output of to_json or in the written file; an add_edge call with
\* source = target changes neither the edge list nor the dedup set.
C2_NoSelfEdge ==
    [][/\ \A i \in 1..Len(builder'.edges) :
             builder'.edges[i].source # builder'.edges[i].target
       /\ \A i \in 1..Len(to_json(builder').edges) :
             to_json(builder').edges[i].source # to_json(builder').edges[i].target
       /\ phase' = "written" =>
             \A e \in Range(json_load(graph_file').edges) : e.source # e.target
       /\ \A key \in builder'._edge_set : key[1] # key[2]
       /\ (IsAddEdgeStep /\ call'.source = call'.target)
          => /\ builder'.edges = builder.edges
             /\ builder'._edge_set = builder._edge_set]_vars

\* a self-edge was passed to a builder that already holds edges
C2_Witness ==
    /\ call.op = "add_edge"
    /\ call.source = call.target
    /\ Len(builder.edges) >= 1

----------------------------------------------------------------------------
(* The query run: main loads the graph file and runs one command. *)

\* main: gq = GraphQuery(graph_path)
Load ==
    /\ phase = "written"
    /\ gq' = GraphQuery_init(graph_file)
    /\ phase' = "loaded"
    /\ UNCHANGED <<bvars, graph_file, exit_code, viewer, tvars>>

CmdFile(path) ==
    /\ phase = "loaded"
    /\ output' = cmd_file(gq, path)
    /\ phase' = "done"
    /\ UNCHANGED <<bvars, graph_file, exit_code, viewer, gq, end_ids, matches, idx,
                   queue, visited, affected>>

\* cmd_impact up to the first BFS, or its early return
CmdImpact(path) ==
    /\ phase = "loaded"
    /\ LET nodes == find_nodes_by_file(gq, path)
       IN IF nodes = <<>>
          THEN /\ output' = NotFound
               /\ phase' = "done"
               /\ UNCHANGED <<matches, idx, queue, visited, affected>>
          ELSE /\ matches' = Take(nodes, 3)
               /\ idx' = 1
               /\ affected' = <<>>
               /\ queue' = << <<nodes[1].id, 0>> >>
               /\ visited' = {nodes[1].id}
               /\ output' = <<>>
               /\ phase' = "impact"
    /\ UNCHANGED <<bvars, graph_file, exit_code, viewer, gq, end_ids>>

\* cmd_impact: one iteration of the BFS loop
ImpactStep ==
    /\ phase = "impact"
    /\ queue # <<>>
    /\ LET st == ImpactIteration(gq,
                    [visited |-> visited, affected |-> affected, queue |-> queue])
       IN /\ visited' = st.visited
          /\ affected' = st.affected
          /\ queue' = st.queue
    /\ UNCHANGED <<bvars, graph_file, exit_code, viewer, gq, end_ids, phase, matches, idx, output>>

\* cmd_impact: the BFS of matches[idx] is over: report it, go to the next node
ImpactNext ==
    /\ phase = "impact"
    /\ queue = <<>>
    /\ output' = Append(output, ImpactReport(gq, matches[idx], affected))
    /\ IF idx < Len(matches)
       THEN /\ idx' = idx + 1
            /\ affected' = <<>>
            /\ queue' = << <<matches[idx + 1].id, 0>> >>
            /\ visited' = {matches[idx + 1].id}
            /\ UNCHANGED phase
       ELSE /\ phase' = "done"
            /\ UNCHANGED <<idx, affected, queue, visited>>
    /\ UNCHANGED <<bvars, graph_file, exit_code, viewer, gq, end_ids, matches>>

\* cmd_cluster up to the BFS, or its early return
CmdCluster(path) ==
    /\ phase = "loaded"
    /\ LET nodes == find_nodes_by_file(gq, path)
       IN IF nodes = <<>>
          THEN /\ output' = NotFound
               /\ phase' = "done"
               /\ UNCHANGED <<matches, queue, visited>>
          ELSE /\ matches' = <<nodes[1]>>
               /\ queue' = <<nodes[1].id>>
               /\ visited' = {nodes[1].id}
               /\ output' = <<>>
               /\ phase' = "cluster"
    /\ UNCHANGED <<bvars, graph_file, exit_code, viewer, gq, end_ids, idx, affected>>

\* cmd_cluster: one iteration of the BFS loop
ClusterStep ==
    /\ phase = "cluster"
    /\ queue # <<>>
    /\ LET st == ClusterIteration(gq, [visited |-> visited, queue |-> queue])
       IN /\ visited' = st.visited
          /\ queue' = st.queue
    /\ UNCHANGED <<bvars, graph_file, exit_code, viewer, gq, end_ids, phase, matches,
                   idx, affected, output>>

\* cmd_cluster: the BFS is over: report the cluster
ClusterDone ==
    /\ phase = "cluster"
    /\ queue = <<>>
    /\ output' = ClusterReport(gq, matches[1], visited)
    /\ phase' = "done"
    /\ UNCHANGED <<bvars, graph_file, exit_code, viewer, gq, end_ids, matches, idx,
                   queue, visited, affected>>

\* cmd_path up to the BFS, or one of its early returns
CmdPath(from_path, to_path) ==
    /\ phase = "loaded"
    /\ LET from_nodes == find_nodes_by_file(gq, from_path)
           to_nodes == find_nodes_by_file(gq, to_path)
       IN IF from_nodes = <<>>
          THEN /\ output' = NoNodesFound("from")
               /\ phase' = "done"
               /\ UNCHANGED <<matches, queue, visited, end_ids>>
          ELSE IF to_nodes = <<>>
          THEN /\ output' = NoNodesFound("to")
               /\ phase' = "done"
               /\ UNCHANGED <<matches, queue, visited, end_ids>>
          ELSE /\ matches' = <<from_nodes[1]>>
               /\ end_ids' = {to_nodes[i].id : i \in 1..Len(to_nodes)}
               /\ queue' = << <<from_nodes[1].id, <<from_nodes[1].id>> >> >>
               /\ visited' = {from_nodes[1].id}
               /\ output' = <<>>
               /\ phase' = "path"
    /\ UNCHANGED <<bvars, graph_file, exit_code, viewer, gq, idx, affected>>

\* cmd_path: one iteration of the BFS loop; it returns the path, leaves the
\* loop at the safety limit, or goes on
PathStep ==
    /\ phase = "path"
    /\ queue # <<>>
    /\ LET st == PathIteration(gq, end_ids, [visited |-> visited, queue |-> queue])
       IN /\ visited' = st.visited
          /\ queue' = st.queue
          /\ IF st.status = "found"
             THEN /\ output' = PathReport(gq, matches[1], st.current, st.path)
                  /\ phase' = "done"
             ELSE IF st.status = "break"
             THEN /\ output' = NoPathFound
                  /\ phase' = "done"
             ELSE UNCHANGED <<output, phase>>
    /\ UNCHANGED <<bvars, graph_file, exit_code, viewer, gq, end_ids, matches, idx, affected>>

\* cmd_path: the queue ran empty
PathDone ==
    /\ phase = "path"
    /\ queue = <<>>
    /\ output' = NoPathFound
    /\ phase' = "done"
    /\ UNCHANGED <<bvars, graph_file, exit_code, viewer, gq, end_ids, matches, idx,
                   queue, visited, affected>>

\* main: print(gq.cmd_dead_code(show_all=args.all))
CmdDeadCode(show_all) ==
    /\ phase = "loaded"
    /\ LET r == cmd_dead_code(gq, show_all)
       IN /\ gq' = r.self
          /\ output' = r.ret
    /\ phase' = "done"
    /\ UNCHANGED <<bvars, graph_file, exit_code, viewer, end_ids, matches, idx, queue, visited, affected>>

\* main: print(gq.cmd_risky_files(args.top or 20))
CmdRiskyFiles(top) ==
    /\ phase = "loaded"
    /\ LET r == cmd_risky_files(gq, top)
       IN /\ gq' = r.self
          /\ output' = r.ret
    /\ phase' = "done"
    /\ UNCHANGED <<bvars, graph_file, exit_code, viewer, end_ids, matches, idx, queue, visited, affected>>

\* main: print(gq.cmd_deps(cmd_args[0]))
CmdDeps(path) ==
    /\ phase = "loaded"
    /\ LET r == cmd_deps(gq, path)
       IN /\ gq' = r.self
          /\ output' = r.ret
    /\ phase' = "done"
    /\ UNCHANGED <<bvars, graph_file, exit_code, viewer, end_ids, matches, idx, queue, visited, affected>>

\* main: print(gq.cmd_dependents(cmd_args[0]))
CmdDependents(path) ==
    /\ phase = "loaded"
    /\ LET r == cmd_dependents(gq, path)
       IN /\ gq' = r.self
          /\ output' = r.ret
    /\ phase' = "done"
    /\ UNCHANGED <<bvars, graph_file, exit_code, viewer, end_ids, matches, idx, queue, visited, affected>>

\* main: print(gq.cmd_model(cmd_args[0]))
CmdModel(name) ==
    /\ phase = "loaded"
    /\ LET r == cmd_model(gq, name)
       IN /\ gq' = r.self
          /\ output' = r.ret
    /\ phase' = "done"
    /\ UNCHANGED <<bvars, graph_file, exit_code, viewer, end_ids, matches, idx, queue, visited, affected>>

\* main: print(gq.cmd_hubs(args.top or 15))
CmdHubs(top) ==
    /\ phase = "loaded"
    /\ LET r == cmd_hubs(gq, top)
       IN /\ gq' = r.self
          /\ output' = r.ret
    /\ phase' = "done"
    /\ UNCHANGED <<bvars, graph_file, exit_code, viewer, end_ids, matches, idx, queue, visited, affected>>

\* main: print(gq.cmd_search(" ".join(cmd_args)))
CmdSearch(query) ==
    /\ phase = "loaded"
    /\ LET r == cmd_search(gq, query)
       IN /\ gq' = r.self
          /\ output' = r.ret
    /\ phase' = "done"
    /\ UNCHANGED <<bvars, graph_file, exit_code, viewer, end_ids, matches, idx, queue, visited, affected>>

\* main: print(gq.cmd_stats())
CmdStats ==
    /\ phase = "loaded"
    /\ LET r == cmd_stats(gq)
       IN /\ gq' = r.self
          /\ output' = r.ret
    /\ phase' = "done"
    /\ UNCHANGED <<bvars, graph_file, exit_code, viewer, end_ids, matches, idx, queue, visited, affected>>

\* main: print(gq.cmd_endpoint(cmd_args[0]))
CmdEndpoint(path) ==
    /\ phase = "loaded"
    /\ LET r == cmd_endpoint(gq, path)
       IN /\ gq' = r.self
          /\ output' = r.ret
    /\ phase' = "done"
    /\ UNCHANGED <<bvars, graph_file, exit_code, viewer, end_ids, matches, idx, queue, visited, affected>>

\* main: print(gq.cmd_overview())
CmdOverview ==
    /\ phase = "loaded"
    /\ LET r == cmd_overview(gq)
       IN /\ gq' = r.self
          /\ output' = r.ret
    /\ phase' = "done"
    /\ UNCHANGED <<bvars, graph_file, exit_code, viewer, end_ids, matches, idx, queue, visited, affected>>

\* main: print(gq.cmd_report())
CmdReport ==
    /\ phase = "loaded"
    /\ LET r == cmd_report(gq)
       IN /\ gq' = r.self
          /\ output' = r.ret
    /\ phase' = "done"
    /\ UNCHANGED <<bvars, graph_file, exit_code, viewer, end_ids, matches, idx, queue, visited, affected>>

\* main: print(gq.cmd_changes(*cmd_args))
CmdChanges(paths) ==
    /\ phase = "loaded"
    /\ LET r == cmd_changes(gq, paths)
       IN /\ gq' = r.self
          /\ output' = r.ret
    /\ phase' = "done"
    /\ UNCHANGED <<bvars, graph_file, exit_code, viewer, end_ids, matches, idx, queue, visited, affected>>

\* a caller that keeps the object, as cmd_report does, calls the next
\* command on it: the locals of the last command are gone, the object stays
CallAgain ==
    /\ phase = "done"
    /\ calls < MaxCalls
    /\ calls' = calls + 1
    /\ phase' = "loaded"
    /\ matches' = <<>>
    /\ idx' = 0
    /\ queue' = <<>>
    /\ visited' = {}
    /\ affected' = <<>>
    /\ end_ids' = {}
    /\ output' = <<>>
    /\ UNCHANGED <<builder, call, graph_file, exit_code, viewer, gq>>

----------------------------------------------------------------------------
(* Graph files the query engine may be given.  A file need not come from   *)
(* the builder: it may list an id twice, repeat an edge, hold a self-edge  *)
(* or an edge to an id it does not list.                                   *)

SeqsUpTo(S, n) == UNION {[1..k -> S] : k \in 0..n}

LabelOf(id) ==
    CASE id = "A" -> <<"a">>
      [] id = "B" -> <<"b">>
      [] id = "C" -> <<"c">>
      [] OTHER -> <<"n">>

\* a node record of a graph file
SnapNode(id, label, type) ==
    [id |-> id, label |-> label, type |-> type,
     file |-> <<"s", "/">> \o LabelOf(id), line |-> 0, metadata |-> <<>>]

SnapEdge(source, target, type) ==
    [source |-> source, target |-> target, type |-> type, metadata |-> <<>>]

\* the file holding the given node and edge records
Snapshot(nodes, edges) ==
    json_dump([project |-> "project",
               stats |-> [total_nodes |-> Len(nodes), total_edges |-> Len(edges),
                          node_types |-> SortedByCountDesc(TypeCounts(nodes, <<>>)),
                          edge_types |-> SortedByCountDesc(TypeCounts(edges, <<>>))],
               nodes |-> nodes, edges |-> edges])

AtQueryStart ==
    /\ builder = GraphBuilder_init
    /\ call = [op |-> "init"]
    /\ calls = 0
    /\ phase = "written"
    /\ IdleQuery

SmallIds == {"A", "B", "C"}

\* the node records for a list of ids: a repeated id comes back with another
\* label and type
SmallNodes(ids) ==
    [i \in 1..Len(ids) |->
        IF \E j \in 1..(i - 1) : ids[j] = ids[i]
        THEN SnapNode(ids[i], <<"x">>, "config")
        ELSE SnapNode(ids[i], LabelOf(ids[i]), "file")]

SmallEdges == {SnapEdge(s, t, "imports") : s \in SmallIds, t \in SmallIds}

IdRank(id) == CASE id = "A" -> 1 [] id = "B" -> 2 [] OTHER -> 3

\* the id lists in which A is the first id listed, B the second, C the third
\* (every other list is one of these with the ids renamed)
SmallIdLists ==
    {ids \in SeqsUpTo(SmallIds, MaxSnapNodes) :
        \A i \in 1..Len(ids) :
            IdRank(ids[i]) <= Cardinality({ids[j] : j \in 1..(i - 1)}) + 1}

\* every file of at most MaxSnapNodes node records and MaxSnapEdges edges
InitSmall ==
    /\ AtQueryStart
    /\ \E ids \in SmallIdLists, es \in SeqsUpTo(SmallEdges, MaxSnapEdges) :
          graph_file = Snapshot(SmallNodes(ids), es)

SmallQueries == {<<"a">>, <<"/", "B", "/">>, <<"s", "/">>, <<"z">>}

NextIndex ==
    \/ Load
    \/ \E path \in SmallQueries : CmdCluster(path)
    \/ ClusterStep
    \/ ClusterDone

SpecIndex == InitSmall /\ [][NextIndex]_vars

----------------------------------------------------------------------------
(* Graph files for the risk classifier: a hub A of any type and spokes    *)
(* B1, B2, ... of type file; k_in edges run from the spokes to the hub and *)
(* k_out edges from the hub to the spokes, two (of different types) per    *)
(* spoke and direction, so that no edge key repeats.                       *)

RiskTypes == {"router", "config", "collection", "service", "file", "test"}

NumSpokes == (MaxDeg + 1) \div 2

Spoke(i) == "B" \o ToString((i + 1) \div 2)

SpokeEdgeType(i) == IF i % 2 = 1 THEN "imports" ELSE "calls"

StarNodes(hub_type) ==
    <<SnapNode("A", LabelOf("A"), hub_type)>>
    \o [k \in 1..NumSpokes |-> SnapNode("B" \o ToString(k), LabelOf("B"), "file")]

StarEdges(k_in, k_out) ==
    [i \in 1..(k_in + k_out) |->
        IF i <= k_in THEN SnapEdge(Spoke(i), "A", SpokeEdgeType(i))
        ELSE SnapEdge("A", Spoke(i - k_in), SpokeEdgeType(i - k_in))]

InitStar ==
    /\ AtQueryStart
    /\ \E hub_type \in RiskTypes, k_in \in 0..MaxDeg, k_out \in 0..MaxDeg :
          graph_file = Snapshot(StarNodes(hub_type), StarEdges(k_in, k_out))

RiskQueries == {<<"a">>, <<"s", "/">>, <<"z">>}

NextRisk ==
    \/ Load
    \/ \E path \in RiskQueries : CmdFile(path)

SpecRisk == InitStar /\ [][NextRisk]_vars

----------------------------------------------------------------------------
(* Graph files for the impact traversal: nodes N1 .. Nk in a row, the      *)
(* first p edges of the chain N2 -> N1, N3 -> N2, ..., and up to MaxExtra  *)
(* further edges between any two of the nodes.  k is two more than the     *)
(* deepest level the traversal records, so a node can lie one level beyond. *)

ChainLen == ImpactDepth + 3

ChainId(i) == "N" \o ToString(i)
ChainIds == {ChainId(i) : i \in 1..ChainLen}

ChainNodes == [i \in 1..ChainLen |-> SnapNode(ChainId(i), <<ToString(i)>>, "file")]

ChainEdges(p) == [i \in 1..p |-> SnapEdge(ChainId(i + 1), ChainId(i), "imports")]

ExtraEdges == {SnapEdge(s, t, "calls") : s \in ChainIds, t \in ChainIds}

InitChain ==
    /\ AtQueryStart
    /\ \E p \in 0..(ChainLen - 1), extra \in SeqsUpTo(ExtraEdges, MaxExtra) :
          graph_file = Snapshot(ChainNodes, extra \o ChainEdges(p))

ImpactQueries == {<<ToString(i)>> : i \in 1..ChainLen} \cup {<<"s", "/">>, <<"z">>}

NextImpact ==
    \/ Load
    \/ \E path \in ImpactQueries : CmdImpact(path)
    \/ ImpactStep
    \/ ImpactNext

SpecImpact == InitChain /\ [][NextImpact]_vars


----------------------------------------------------------------------------
(* Graph files for the path search: nodes A (file s/a), B (t/b), C (t/c),  *)
(* or A and C alone, and up to MaxPathEdges edges of either type between   *)
(* two different ids of A, B, C; an edge can repeat, run both ways, and,   *)
(* when B is not listed, lead to an id the file does not list.             *)

PathNode(id) ==
    [SnapNode(id, LabelOf(id), "file")
        EXCEPT !.file = (IF id = "A" THEN <<"s", "/">> ELSE <<"t", "/">>) \o LabelOf(id)]

PathNodeLists == {<<"A", "B", "C">>, <<"A", "C">>}

PathEdges ==
    {SnapEdge(s, t, ty) : s \in SmallIds, t \in SmallIds, ty \in EdgeTypes}
    \ {SnapEdge(s, s, ty) : s \in SmallIds, ty \in EdgeTypes}

InitPath ==
    /\ AtQueryStart
    /\ \E ids \in PathNodeLists, es \in SeqsUpTo(PathEdges, MaxPathEdges) :
          graph_file = Snapshot([i \in 1..Len(ids) |-> PathNode(ids[i])], es)

PathFromQueries == {<<"a">>, <<"z">>}
PathToQueries == {<<"c">>, <<"t", "/">>, <<"z">>}

NextPath ==
    \/ Load
    \/ \E from_path \in PathFromQueries, to_path \in PathToQueries :
          CmdPath(from_path, to_path)
    \/ PathStep
    \/ PathDone

SpecPath == InitPath /\ [][NextPath]_vars


----------------------------------------------------------------------------
(* Graph files for the safety limit of the path search: a hub H with k     *)
(* spokes S1 .. Sk, k around the limit, every spoke joined to the hub by   *)
(* one edge (all from the hub or all into it), optionally a node P with an *)
(* edge to the hub, and a node I without edges.  S1 has the label t, the   *)
(* other spokes n.                                                         *)

CapNode(id, label) ==
    [SnapNode(id, label, "file") EXCEPT !.file = <<"s", "/">> \o label]

CapNodes(k, with_p) ==
    (IF with_p THEN <<CapNode("P", <<"p">>)>> ELSE <<>>)
    \o <<CapNode("H", <<"h">>)>>
    \o [i \in 1..k |->
          CapNode("S" \o ToString(i), IF i = 1 THEN <<"t">> ELSE <<"n">>)]
    \o <<CapNode("I", <<"i">>)>>

CapEdges(k, with_p, outward) ==
    (IF with_p THEN <<SnapEdge("P", "H", "imports")>> ELSE <<>>)
    \o [i \in 1..k |->
          IF outward THEN SnapEdge("H", "S" \o ToString(i), "imports")
          ELSE SnapEdge("S" \o ToString(i), "H", "imports")]

InitCap ==
    /\ AtQueryStart
    /\ \E k \in (PathLimit - 2)..(PathLimit + MaxOver - 1), with_p \in BOOLEAN,
          outward \in BOOLEAN :
          graph_file = Snapshot(CapNodes(k, with_p), CapEdges(k, with_p, outward))

\* <<from_path, to_path>>
CapQueries ==
    {<< <<"h">>, <<"t">> >>, << <<"h">>, <<"n">> >>, << <<"p">>, <<"t">> >>,
     << <<"z">>, <<"t">> >>, << <<"h">>, <<"z">> >>, << <<"i">>, <<"t">> >>}

NextCap ==
    \/ Load
    \/ \E args \in CapQueries : CmdPath(args[1], args[2])
    \/ PathStep
    \/ PathDone

SpecCap == InitCap /\ [][NextCap]_vars


----------------------------------------------------------------------------
(* Graph files for the dead-code report: a node X of any type and a node Y *)
(* of type file with up to MaxSnapEdges edges between X, Y and an id G the *)
(* file does not list; then no further node, or a row of nodes I1, I2, ... *)
(* of type file without edges, as many as a group of the report shows, one *)
(* fewer or up to MaxOver more, or a row of nodes D1, D2, ... of type      *)
(* service, each with one edge to Y, sized likewise.                       *)

DeadTypes == {"file", "config", "test", "script", "service"}

DeadEdges ==
    {SnapEdge("X", "Y", "imports"), SnapEdge("Y", "X", "imports"),
     SnapEdge("X", "G", "imports"), SnapEdge("X", "X", "imports")}

RowSizes(shown) == (shown - 1)..(shown + MaxOver)

\* <<number of nodes I, number of nodes D>>
DeadRows ==
    {<<0, 0>>} \cup {<<k, 0>> : k \in RowSizes(IsolatedShown)}
               \cup {<<0, m>> : m \in RowSizes(NoDependentsShown)}

DeadNodes(x_type, n_iso, n_src) ==
    <<SnapNode("X", <<"x">>, x_type), SnapNode("Y", <<"y">>, "file")>>
    \o [i \in 1..n_iso |-> SnapNode("I" \o ToString(i), <<"i">>, "file")]
    \o [i \in 1..n_src |-> SnapNode("D" \o ToString(i), <<"d">>, "service")]

InitDead ==
    /\ AtQueryStart
    /\ \E x_type \in DeadTypes, es \in SeqsUpTo(DeadEdges, MaxSnapEdges),
          rows \in DeadRows :
          graph_file = Snapshot(DeadNodes(x_type, rows[1], rows[2]),
                           es \o [i \in 1..rows[2] |->
                                     SnapEdge("D" \o ToString(i), "Y", "calls")])

NextDead ==
    \/ Load
    \/ \E show_all \in BOOLEAN : CmdDeadCode(show_all)

SpecDead == InitDead /\ [][NextDead]_vars

----------------------------------------------------------------------------
(* Graph files for the risky-files ranking: a node A of any type, a node B *)
(* that is a router, a file or a service and a node C of type file, with   *)
(* up to MaxSnapEdges edges between them.                                  *)

RankNodes(a_type, b_type) ==
    <<SnapNode("A", LabelOf("A"), a_type), SnapNode("B", LabelOf("B"), b_type),
      SnapNode("C", LabelOf("C"), "file")>>

InitRank ==
    /\ AtQueryStart
    /\ \E a_type \in RiskTypes, b_type \in {"router", "file", "service"},
          es \in SeqsUpTo(SmallEdges, MaxSnapEdges) :
          graph_file = Snapshot(RankNodes(a_type, b_type), es)

RankTops == {1, 2, RiskyTopDefault}

NextRank ==
    \/ Load
    \/ \E top \in RankTops : CmdRiskyFiles(top)

SpecRank == InitRank /\ [][NextRank]_vars


----------------------------------------------------------------------------
(* Graph files for a series of commands on one object: a node A that is a  *)
(* file, a collection or an endpoint, a node B that is a file or a test    *)
(* and a service C, with up to MaxSnapEdges edges between them and to an   *)
(* id G the file does not list.                                            *)

SessionNodes(a_type, b_type) ==
    <<SnapNode("A", LabelOf("A"), a_type), SnapNode("B", LabelOf("B"), b_type),
      SnapNode("C", LabelOf("C"), "service")>>

SessionEdges ==
    {SnapEdge("A", "B", "imports"), SnapEdge("B", "A", "db_read"),
     SnapEdge("C", "A", "calls"), SnapEdge("A", "G", "imports")}

InitSession ==
    /\ AtQueryStart
    /\ \E a_type \in {"file", "collection", "endpoint"}, b_type \in {"file", "test"},
          es \in SeqsUpTo(SessionEdges, MaxSnapEdges) :
          graph_file = Snapshot(SessionNodes(a_type, b_type), es)

SessionQueries == {<<"a">>, <<"z">>}

NextSession ==
    \/ Load
    \/ \E path \in SessionQueries : CmdFile(path)
    \/ \E path \in SessionQueries : CmdImpact(path)
    \/ ImpactStep
    \/ ImpactNext
    \/ \E path \in SessionQueries : CmdDeps(path)
    \/ \E path \in SessionQueries : CmdDependents(path)
    \/ \E name \in SessionQueries : CmdModel(name)
    \/ \E top \in {1, HubsTopDefault} : CmdHubs(top)
    \/ \E path \in SessionQueries : CmdCluster(path)
    \/ ClusterStep
    \/ ClusterDone
    \/ \E from_path \in SessionQueries : CmdPath(from_path, <<"c">>)
    \/ PathStep
    \/ PathDone
    \/ \E query \in SessionQueries : CmdSearch(query)
    \/ CmdStats
    \/ \E show_all \in BOOLEAN : CmdDeadCode(show_all)
    \/ \E top \in {1, RiskyTopDefault} : CmdRiskyFiles(top)
    \/ \E path \in SessionQueries : CmdEndpoint(path)
    \/ CmdOverview
    \/ CmdReport
    \/ \E paths \in {<< <<"a">> >>, << <<"z">>, <<"s", "/">> >>} : CmdChanges(paths)
    \/ CallAgain

SpecSession == InitSession /\ [][NextSession]_vars

----------------------------------------------------------------------------
(* The round trip: a build run, the export, and a query run on the file    *)
(* the build wrote.                                                        *)

NextRoundTrip ==
    \/ AddNode
    \/ AddEdge
    \/ WriteGraph
    \/ Load
    \/ \E top \in {1, RiskyTopDefault} : CmdRiskyFiles(top)

SpecRoundTrip == Init /\ [][NextRoundTrip]_vars

----------------------------------------------------------------------------
(* The query process: main of query_graph.py from the command line to the  *)
(* exit code.  The variable call holds what the process was started with: *)
(* whether a file is at the path of --graph, whether one is at a fallback  *)
(* location, what the file holds, and the parsed command line.             *)

\* the characters of the command names
Chars(name) ==
    CASE name = "file" -> <<"f", "i", "l", "e">>
      [] name = "impact" -> <<"i", "m", "p", "a", "c", "t">>
      [] name = "deps" -> <<"d", "e", "p", "s">>
      [] name = "dependents" -> <<"d", "e", "p", "e", "n", "d", "e", "n", "t", "s">>
      [] name = "model" -> <<"m", "o", "d", "e", "l">>
      [] name = "hubs" -> <<"h", "u", "b", "s">>
      [] name = "cluster" -> <<"c", "l", "u", "s", "t", "e", "r">>
      [] name = "path" -> <<"p", "a", "t", "h">>
      [] name = "search" -> <<"s", "e", "a", "r", "c", "h">>
      [] name = "stats" -> <<"s", "t", "a", "t", "s">>
      [] name = "dead_code" -> <<"d", "e", "a", "d", "_", "c", "o", "d", "e">>
      [] name = "dead-code" -> <<"d", "e", "a", "d", "-", "c", "o", "d", "e">>
      [] name = "risky_files" -> <<"r", "i", "s", "k", "y", "_", "f", "i", "l", "e", "s">>
      [] name = "risky-files" -> <<"r", "i", "s", "k", "y", "-", "f", "i", "l", "e", "s">>
      [] name = "endpoint" -> <<"e", "n", "d", "p", "o", "i", "n", "t">>
      [] name = "overview" -> <<"o", "v", "e", "r", "v", "i", "e", "w">>
      [] name = "report" -> <<"r", "e", "p", "o", "r", "t">>
      [] name = "changes" -> <<"c", "h", "a", "n", "g", "e", "s">>
      [] name = "Bfile" -> <<"B", "f", "i", "l", "e">>
      [] OTHER -> <<"z">>

\* args.command.lower().replace("-", "_")
RouteName(command) ==
    [i \in 1..Len(command) |->
        IF Lower(command)[i] = "-" THEN "_" ELSE Lower(command)[i]]

\* " ".join(cmd_args)
RECURSIVE Join(_)
Join(args) ==
    IF args = <<>> THEN <<>>
    ELSE IF Len(args) = 1 THEN args[1]
    ELSE args[1] \o <<" ">> \o Join(Tail(args))

\* main: the condition of the branch that runs the command
Routed(name, needed) ==
    /\ phase = "loaded"
    /\ call.op = "main"
    /\ RouteName(call.command) = Chars(name)
    /\ Len(call.args) >= needed

\* main: some branch of the if/elif chain runs a command
SomeRoute ==
    \/ \E name \in {"file", "impact", "deps", "dependents", "model", "cluster",
                    "search", "endpoint", "changes"} :
          RouteName(call.command) = Chars(name) /\ Len(call.args) >= 1
    \/ RouteName(call.command) = Chars("path") /\ Len(call.args) >= 2
    \/ \E name \in {"hubs", "stats", "dead_code", "risky_files", "overview",
                    "report"} :
          RouteName(call.command) = Chars(name)

\* the process has ended with the given exit code
Exited(code) == phase = "exit" /\ exit_code = code

\* sys.exit(code), or the interpreter ending the process
Exit(code) ==
    /\ phase' = "exit"
    /\ exit_code' = code

\* the command lines tried: every command under its name, two commands also
\* with a hyphen, one in capitals, and a name that is no command
CliCommands ==
    {Chars(name) : name \in {"file", "impact", "deps", "dependents", "model", "hubs",
                             "cluster", "path", "search", "stats", "dead_code",
                             "dead-code", "risky_files", "risky-files", "endpoint",
                             "overview", "report", "changes", "Bfile", "bogus"}}

CliArgs == {<<>>, << <<"a">> >>, << <<"z">> >>, << <<"a">>, <<"c">> >>, << <<"z">>, <<"a">> >>}

\* main: parser.parse_args().  argparse ends the process with code 2 when
\* the command line has no command, an unknown flag or a --top that is no
\* integer.
ParseArgs ==
    /\ phase = "cli"
    /\ \/ /\ Exit(2)
          /\ UNCHANGED call
       \/ /\ \E command \in CliCommands, args \in CliArgs, top \in {0, 2},
                show_all \in BOOLEAN :
                call' = [call EXCEPT !.parsed = TRUE, !.command = command,
                                     !.args = args, !.top = top, !.all = show_all]
          /\ phase' = "parsed"
          /\ UNCHANGED exit_code
    /\ UNCHANGED <<builder, calls, graph_file, viewer, gq, matches, idx, queue, visited,
                   affected, end_ids, output>>

\* main: the graph file is the one at the path of --graph or else the
\* first one at a fallback location; without any the process exits with 1
FindGraph ==
    /\ phase = "parsed"
    /\ IF call.at_path \/ call.at_fallback
       THEN phase' = "found" /\ UNCHANGED exit_code
       ELSE Exit(1)
    /\ UNCHANGED <<bvars, graph_file, viewer, gq, matches, idx, queue, visited, affected,
                   end_ids, output>>

\* main: gq = GraphQuery(graph_path), outside the try block: json.load
\* raises on a text that is no JSON, self.data["nodes"] raises on a document
\* without that member, and the uncaught exception ends the process with 1
LoadGraph ==
    /\ phase = "found"
    /\ IF call.content = "snapshot"
       THEN /\ gq' = GraphQuery_init(graph_file)
            /\ phase' = "loaded"
            /\ UNCHANGED exit_code
       ELSE /\ Exit(1)
            /\ UNCHANGED gq
    /\ UNCHANGED <<bvars, graph_file, viewer, matches, idx, queue, visited, affected,
                   end_ids, output>>

RouteFile == Routed("file", 1) /\ CmdFile(call.args[1])
RouteImpact == Routed("impact", 1) /\ CmdImpact(call.args[1])
RouteDeps == Routed("deps", 1) /\ CmdDeps(call.args[1])
RouteDependents == Routed("dependents", 1) /\ CmdDependents(call.args[1])
RouteModel == Routed("model", 1) /\ CmdModel(call.args[1])
RouteHubs ==
    Routed("hubs", 0) /\ CmdHubs(IF call.top # 0 THEN call.top ELSE HubsTopDefault)
RouteCluster == Routed("cluster", 1) /\ CmdCluster(call.args[1])
RoutePath == Routed("path", 2) /\ CmdPath(call.args[1], call.args[2])
RouteSearch == Routed("search", 1) /\ CmdSearch(Join(call.args))
RouteStats == Routed("stats", 0) /\ CmdStats
RouteDeadCode == Routed("dead_code", 0) /\ CmdDeadCode(call.all)
RouteRiskyFiles ==
    Routed("risky_files", 0)
    /\ CmdRiskyFiles(IF call.top # 0 THEN call.top ELSE RiskyTopDefault)
RouteEndpoint == Routed("endpoint", 1) /\ CmdEndpoint(call.args[1])
RouteOverview == Routed("overview", 0) /\ CmdOverview
RouteReport == Routed("report", 0) /\ CmdReport
RouteChanges == Routed("changes", 1) /\ CmdChanges(call.args)

\* the else branch ending the process with code 0
RouteElse_exit_0 ==
    /\ phase = "loaded"
    /\ call.op = "main"
    /\ ~SomeRoute
    /\ Exit(0)
    /\ UNCHANGED <<bvars, graph_file, viewer, gq, matches, idx, queue, visited, affected,
                   end_ids, output>>

\* main: the else branch: parser.print_help(); sys.exit(1)
RouteElse ==
    /\ phase = "loaded"
    /\ call.op = "main"
    /\ ~SomeRoute
    /\ Exit(1)
    /\ UNCHANGED <<bvars, graph_file, viewer, gq, matches, idx, queue, visited, affected,
                   end_ids, output>>

\* main returns after the command's report is printed
MainReturns ==
    /\ phase = "done"
    /\ Exit(0)
    /\ UNCHANGED <<bvars, graph_file, viewer, gq, matches, idx, queue, visited, affected,
                   end_ids, output>>

\* the graph file of the process: a dependency cycle A, B and an edge to an
\* unlisted id
CliSnapshot ==
    Snapshot(SessionNodes("endpoint", "test"),
             <<SnapEdge("A", "B", "imports"), SnapEdge("B", "A", "db_read"),
               SnapEdge("C", "A", "calls"), SnapEdge("A", "G", "imports")>>)

\* a graph file with the same nodes and no edge
CliIslands == Snapshot(SessionNodes("endpoint", "test"), <<>>)

InitCli ==
    /\ builder = GraphBuilder_init
    /\ calls = 0
    /\ phase = "cli"
    /\ graph_file \in {CliSnapshot, CliIslands}
    /\ IdleQuery
    /\ \E at_path \in BOOLEAN, at_fallback \in BOOLEAN,
          content \in {"snapshot", "not_json", "no_nodes"} :
          call = [op |-> "main", at_path |-> at_path, at_fallback |-> at_fallback,
                  content |-> content, parsed |-> FALSE, command |-> <<>>,
                  args |-> <<>>, top |-> 0, all |-> FALSE]

NextCli ==
    \/ ParseArgs
    \/ FindGraph
    \/ LoadGraph
    \/ RouteFile
    \/ RouteImpact
    \/ ImpactStep
    \/ ImpactNext
    \/ RouteDeps
    \/ RouteDependents
    \/ RouteModel
    \/ RouteHubs
    \/ RouteCluster
    \/ ClusterStep
    \/ ClusterDone
    \/ RoutePath
    \/ PathStep
    \/ PathDone
    \/ RouteSearch
    \/ RouteStats
    \/ RouteDeadCode
    \/ RouteRiskyFiles
    \/ RouteEndpoint
    \/ RouteOverview
    \/ RouteReport
    \/ RouteChanges
    \/ RouteElse
    \/ MainReturns

SpecCli == InitCli /\ [][NextCli]_vars

----------------------------------------------------------------------------
(* The HTML viewer (generate_viewer.py).  main embeds the loaded graph     *)
(* file in the page as DATA; the script of the page builds its own index   *)
(* of it.  A node object is named by its place in the list nodes: nodeMap   *)
(* and the src / tgt fields of an edge hold places.                        *)

\* nodeMap = {}; nodes.forEach(n => nodeMap[n.id] = n)
RECURSIVE NodeMapUpTo(_, _)
NodeMapUpTo(ns, k) ==
    IF k = 0 THEN <<>> ELSE DictSet(NodeMapUpTo(ns, k - 1), ns[k].id, k)

\* edges.forEach(e => { e.src.conns++; e.tgt.conns++; })
RECURSIVE ConnsUpTo(_, _, _)
ConnsUpTo(es, k, n) ==
    IF k = 0 THEN [i \in 1..n |-> 0]
    ELSE LET c == ConnsUpTo(es, k - 1, n)
             c1 == [c EXCEPT ![es[k].src] = @ + 1]
         IN [c1 EXCEPT ![es[k].tgt] = @ + 1]

\* Object.keys(types).forEach(t => filters[t] = true)
AllShown(types) == [i \in 1..Len(types) |-> <<types[i][1], TRUE>>]

\* loadGraph(data), on the page v
loadGraph(v, data) ==
    LET nodeMap == NodeMapUpTo(data.nodes, Len(data.nodes))
        kept == SelectSeq(data.edges,
                    LAMBDA e : DictHas(nodeMap, e.source) /\ DictHas(nodeMap, e.target))
        edges == [k \in 1..Len(kept) |->
                    [source |-> kept[k].source, target |-> kept[k].target,
                     type |-> kept[k].type,
                     src |-> DictAt(nodeMap, kept[k].source),
                     tgt |-> DictAt(nodeMap, kept[k].target)]]
        conns == ConnsUpTo(edges, Len(edges), Len(data.nodes))
    IN [v EXCEPT
           !.loaded = TRUE,
           !.nodes = [i \in 1..Len(data.nodes) |->
                        [id |-> data.nodes[i].id, label |-> data.nodes[i].label,
                         type |-> data.nodes[i].type, file |-> data.nodes[i].file,
                         conns |-> conns[i]]],
           !.nodeMap = nodeMap,
           !.edges = edges,
           !.S = [@ EXCEPT !.nodeFilters = AllShown(data.stats.node_types),
                           !.edgeFilters = AllShown(data.stats.edge_types)]]

\* isVis(n)
isVis(v, n) ==
    /\ DictGet(v.S.nodeFilters, n.type, FALSE)
    /\ \/ v.S.search = <<>>
       \/ Contains(v.S.search, Lower(n.label))
       \/ n.file # <<>> /\ Contains(v.S.search, Lower(n.file))

\* isEdgeVis(e)
isEdgeVis(v, e) ==
    /\ DictGet(v.S.edgeFilters, e.type, FALSE)
    /\ isVis(v, v.nodes[e.src])
    /\ isVis(v, v.nodes[e.tgt])

\* getRisk with the test of the dependents left out of the third rule
getRisk_no_dependents_rule(v, n) ==
    LET c == n.conns
        inE == Cardinality({k \in DOMAIN v.edges : v.edges[k].target = n.id})
    IN IF c >= 20 \/ n.type \in {"router", "config"} THEN <<"CRITICAL", c>>
       ELSE IF c >= 10 \/ (inE >= 5 /\ n.type \in {"collection", "service"})
       THEN <<"HIGH", c>>
       ELSE IF c >= 4 THEN <<"MEDIUM", c>>
       ELSE <<"LOW", c>>

\* getRisk(n): <<tier, connections>>
getRisk(v, n) ==
    LET c == n.conns
        inE == Cardinality({k \in DOMAIN v.edges : v.edges[k].target = n.id})
    IN IF c >= 20 \/ n.type \in {"router", "config"} THEN <<"CRITICAL", c>>
       ELSE IF c >= 10 \/ (inE >= 5 /\ n.type \in {"collection", "service"})
       THEN <<"HIGH", c>>
       ELSE IF c >= 4 \/ inE >= 2 THEN <<"MEDIUM", c>>
       ELSE <<"LOW", c>>

\* new Set(nodes.filter(isVis).map(n => n.id)), in the order of the set
RECURSIVE VisIds(_, _)
VisIds(v, k) ==
    IF k = 0 THEN <<>>
    ELSE LET ids == VisIds(v, k - 1)
         IN IF isVis(v, v.nodes[k]) /\ v.nodes[k].id \notin Range(ids)
            THEN Append(ids, v.nodes[k].id) ELSE ids

\* the edge scan of updateVisibleCount that follows an edge from its source
\* only
RECURSIVE ScanEdges_forward_only(_, _, _, _, _)
ScanEdges_forward_only(v, vis, cur, k, st) ==
    IF k = 0 THEN st
    ELSE LET s == ScanEdges_forward_only(v, vis, cur, k - 1, st)
             e == v.edges[k]
             nb == IF e.source = cur /\ e.target \in vis THEN e.target ELSE None
         IN IF ~isEdgeVis(v, e) THEN s
            ELSE IF nb # None /\ nb # "" /\ nb \notin s.visited
            THEN [q |-> Append(s.q, nb), visited |-> s.visited \cup {nb}]
            ELSE s

\* updateVisibleCount: edges.forEach(e => ...) for the node cur; st holds
\* the queue and the visited set
RECURSIVE ScanEdges(_, _, _, _, _)
ScanEdges(v, vis, cur, k, st) ==
    IF k = 0 THEN st
    ELSE LET s == ScanEdges(v, vis, cur, k - 1, st)
             e == v.edges[k]
             nb1 == IF e.source = cur /\ e.target \in vis THEN e.target ELSE None
             nb == IF e.target = cur /\ e.source \in vis THEN e.source ELSE nb1
         IN IF ~isEdgeVis(v, e) THEN s
            ELSE IF nb # None /\ nb # "" /\ nb \notin s.visited
            THEN [q |-> Append(s.q, nb), visited |-> s.visited \cup {nb}]
            ELSE s

\* updateVisibleCount: while (q.length) { const cur = q.shift(); ... }
RECURSIVE DrainQueue(_, _, _)
DrainQueue(v, vis, st) ==
    IF st.q = <<>> THEN st.visited
    ELSE DrainQueue(v, vis,
             ScanEdges(v, vis, Head(st.q), Len(v.edges),
                       [q |-> Tail(st.q), visited |-> st.visited]))

\* updateVisibleCount: vis.forEach(id => ...); st holds visited and cc
RECURSIVE CountClusters(_, _, _)
CountClusters(v, ids, k) ==
    IF k = 0 THEN [visited |-> {}, cc |-> 0]
    ELSE LET st == CountClusters(v, ids, k - 1)
         IN IF ids[k] \in st.visited THEN st
            ELSE [visited |-> DrainQueue(v, Range(ids),
                                  [q |-> <<ids[k]>>, visited |-> st.visited \cup {ids[k]}]),
                  cc |-> st.cc + 1]

\* updateVisibleCount()
updateVisibleCount(v) ==
    LET ids == VisIds(v, Len(v.nodes))
    IN [v EXCEPT
           !.visible = Len(SelectSeq(v.nodes, LAMBDA n : isVis(v, n))),
           !.clusters = CountClusters(v, ids, Len(ids)).cc]

\* render(): of what it draws the model keeps the two counters
render(v) == updateVisibleCount(v)

\* init(): loadGraph(DATA), and the first frame of the simulation
ViewerInit ==
    /\ phase # "build"
    /\ ~viewer.loaded
    /\ viewer' = render(loadGraph(viewer, json_load(graph_file)))
    /\ UNCHANGED <<bvars, phase, graph_file, gq, exit_code, tvars>>

\* the checkbox of a node type: S.nodeFilters[t] = this.checked; render()
ToggleNodeFilter ==
    /\ viewer.loaded
    /\ \E t \in Range(DictKeys(viewer.S.nodeFilters)) :
          viewer' = render([viewer EXCEPT !.S.nodeFilters =
                               DictSet(@, t, ~DictAt(@, t))])
    /\ UNCHANGED <<bvars, phase, graph_file, gq, exit_code, tvars>>

\* the checkbox of an edge type: S.edgeFilters[t] = this.checked; render()
ToggleEdgeFilter ==
    /\ viewer.loaded
    /\ \E t \in Range(DictKeys(viewer.S.edgeFilters)) :
          viewer' = render([viewer EXCEPT !.S.edgeFilters =
                               DictSet(@, t, ~DictAt(@, t))])
    /\ UNCHANGED <<bvars, phase, graph_file, gq, exit_code, tvars>>

\* the texts typed into the search box
ViewerSearches == {<<>>, <<"A">>}

\* the input handler of the search box
SearchInput ==
    /\ viewer.loaded
    /\ \E text \in ViewerSearches :
          /\ Lower(text) # viewer.S.search
          /\ viewer' = render([viewer EXCEPT !.S.search = Lower(text)])
    /\ UNCHANGED <<bvars, phase, graph_file, gq, exit_code, tvars>>

\* onMove over a visible node that is not the hovered one: showTooltip
\* writes the risk of the node, then render()
Hover ==
    /\ viewer.loaded
    /\ \E i \in DOMAIN viewer.nodes :
          /\ isVis(viewer, viewer.nodes[i])
          /\ i # viewer.hovered
          /\ viewer' = render([viewer EXCEPT !.hovered = i,
                                   !.risk = getRisk(viewer, viewer.nodes[i])])
    /\ UNCHANGED <<bvars, phase, graph_file, gq, exit_code, tvars>>

\* the edges of the small files for the viewer: two edges into B of
\* different types, an edge back and a self-edge
ViewEdges ==
    {SnapEdge("A", "B", "imports"), SnapEdge("C", "B", "calls"),
     SnapEdge("B", "C", "imports"), SnapEdge("A", "A", "calls")}

InitView ==
    /\ AtQueryStart
    /\ \E ids \in SmallIdLists, es \in SeqsUpTo(ViewEdges, MaxSnapEdges) :
          graph_file = Snapshot(SmallNodes(ids), es)

NextViewer ==
    \/ ViewerInit
    \/ ToggleNodeFilter
    \/ ToggleEdgeFilter
    \/ SearchInput

SpecViewer == InitView /\ [][NextViewer]_vars

\* the stars for the viewer: a hub with k_in edges in and k_out edges out,
\* at and around the thresholds of the risk rules
ViewStarIn == {0, 1, 2, 4, 5, MaxDeg - 1}
ViewStarOut == {0, 2, MaxDeg - 1}

InitViewStar ==
    /\ AtQueryStart
    /\ \E hub_type \in {"file", "service", "router"}, k_in \in ViewStarIn,
          k_out \in ViewStarOut :
          graph_file = Snapshot(StarNodes(hub_type), StarEdges(k_in, k_out))

\* the viewer and the query engine on the same file
NextViewerRisk ==
    \/ Load
    \/ ViewerInit
    \/ Hover

SpecViewerRisk == (InitViewStar \/ InitView) /\ [][NextViewerRisk]_vars

----------------------------------------------------------------------------
(* Graph files for the traversals: an endpoint A, a node B that is a file  *)
(* or an endpoint and a service C; A and B depend on each other, and up to *)
(* MaxExtra edges before the cycle repeat one of its edges or lead from A  *)
(* to itself.  A loop that has been entered goes on until it ends: the     *)
(* program is sequential.                                                  *)

TravCycle == <<SnapEdge("A", "B", "imports"), SnapEdge("B", "A", "calls")>>

TravEdges ==
    {SnapEdge("A", "B", "imports"), SnapEdge("B", "A", "calls"),
     SnapEdge("A", "A", "calls")}

InitTraverse ==
    /\ AtQueryStart
    /\ \E b_type \in {"file", "endpoint"}, extra \in SeqsUpTo(TravEdges, MaxExtra) :
          graph_file = Snapshot(SessionNodes("endpoint", b_type), extra \o TravCycle)

TravQueries == {<<"a">>, <<"s", "/">>}

NextTraverse ==
    \/ Load
    \/ \E path \in TravQueries : CmdImpact(path)
    \/ ImpactStep
    \/ ImpactNext
    \/ \E path \in TravQueries : CmdCluster(path)
    \/ ClusterStep
    \/ ClusterDone
    \/ \E to_path \in {<<"b">>, <<"c">>} : CmdPath(<<"a">>, to_path)
    \/ PathStep
    \/ PathDone
    \/ \E path \in TravQueries : CmdEndpoint(path)

\* the next step of the loop the command is in
LoopStep ==
    ImpactStep \/ ImpactNext \/ ClusterStep \/ ClusterDone \/ PathStep \/ PathDone

SpecTraverse == InitTraverse /\ [][NextTraverse]_vars /\ WF_vars(LoopStep)

----------------------------------------------------------------------------
(* Claims about the index built at load time.  What the claims call the    *)
(* snapshot is read off the graph file itself, not off the loaded object.  *)

FileNodeIds == {Member(graph_file.nodes[i], "id") : i \in 1..Len(graph_file.nodes)}
FileSource(i) == Member(graph_file.edges[i], "source")
FileTarget(i) == Member(graph_file.edges[i], "target")
FileEdgeIdx == 1..Len(graph_file.edges)

\* the file's edges whose two endpoints are listed nodes
KeptIdx ==
    LET ids == FileNodeIds
    IN {i \in FileEdgeIdx : FileSource(i) \in ids /\ FileTarget(i) \in ids}

\* the kept edges as <<source, target>> pairs
KeptPairs == {<<FileSource(i), FileTarget(i)>> : i \in KeptIdx}

\* the position a kept file edge has among the kept edges
KeptPos(i) == Cardinality({j \in KeptIdx : j <= i})

Loaded == phase \notin {"build", "written"}

\* the number of adjacency entries / of connections of a node
OutLen(id) == Len(DictGet(gq.outgoing, id, <<>>))
InLen(id) == Len(DictGet(gq.incoming, id, <<>>))
Connections(id) == DictGet(gq.connection_counts, id, 0)

\* C4: after loading, the index's edge list is the file's edges with both
\* endpoints among the listed node ids, in file order; every other edge is in
\* no adjacency list and no connection count and adds exactly one to the
\* ghost count, so kept + ghost is the number of edges of the file.
C4_GhostEdgesFiltered ==
    Loaded =>
       /\ Len(gq.edges) = Cardinality(KeptIdx)
       /\ \A i \in KeptIdx :
             /\ gq.edges[KeptPos(i)].source = FileSource(i)
             /\ gq.edges[KeptPos(i)].target = FileTarget(i)
       /\ gq._ghost_edges = Cardinality(FileEdgeIdx \ KeptIdx)
       /\ Len(gq.edges) + gq._ghost_edges = Len(graph_file.edges)
       /\ \A id \in FileNodeIds \cup Range(DictKeys(gq.outgoing))
                 \cup Range(DictKeys(gq.incoming))
                 \cup Range(DictKeys(gq.connection_counts)) :
             /\ OutLen(id) = Cardinality({i \in KeptIdx : FileSource(i) = id})
             /\ InLen(id) = Cardinality({i \in KeptIdx : FileTarget(i) = id})
             /\ Connections(id) = Cardinality({i \in KeptIdx : FileSource(i) = id})
                                  + Cardinality({i \in KeptIdx : FileTarget(i) = id})

\* a file with a kept edge and an edge both of whose endpoints are missing
C4_Witness ==
    /\ phase = "loaded"
    /\ Len(gq.edges) >= 1
    /\ \E i \in FileEdgeIdx :
          FileSource(i) \notin FileNodeIds /\ FileTarget(i) \notin FileNodeIds

\* C5: for every node of the loaded graph the connection count is the number
\* of its outgoing entries plus the number of its incoming entries, and these
\* are the kept edges with the node as source, respectively as target.
C5_DegreeIsOutPlusIn ==
    Loaded =>
       \A id \in Range(DictKeys(gq.nodes)) :
          /\ Connections(id) = OutLen(id) + InLen(id)
          /\ OutLen(id) = Cardinality({k \in 1..Len(gq.edges) : gq.edges[k].source = id})
          /\ InLen(id) = Cardinality({k \in 1..Len(gq.edges) : gq.edges[k].target = id})
          /\ \A k \in 1..OutLen(id) : DictAt(gq.outgoing, id)[k][1].source = id
          /\ \A k \in 1..InLen(id) : DictAt(gq.incoming, id)[k][1].target = id

\* a node with a self-edge and one more edge: three connections
C5_Witness ==
    /\ phase = "loaded"
    /\ \E id \in Range(DictKeys(gq.nodes)) :
          /\ Connections(id) = 3
          /\ \E k \in 1..Len(gq.edges) : gq.edges[k].source = id /\ gq.edges[k].target = id

----------------------------------------------------------------------------
(* Claims about cmd_cluster *)

\* the nodes one kept edge away from a node of S, in either direction
Neighbours(S, pairs) ==
    {p[2] : p \in {q \in pairs : q[1] \in S}} \cup {p[1] : p \in {q \in pairs : q[2] \in S}}

RECURSIVE Closure(_, _, _)
Closure(S, n, pairs) ==
    IF n = 0 THEN S ELSE Closure(S \cup Neighbours(S, pairs), n - 1, pairs)

\* the undirected connected component of a node over the kept edges
Component(start) == Closure({start}, Cardinality(FileNodeIds), KeptPairs)

ClusterReported == phase = "done" /\ output # <<>> /\ output[1].found

----------------------------------------------------------------------------
(* Claims about the risk classifier *)

\* the counters of a node, read off the file (kept: the kept file edges)
InOf(kept, id) == Cardinality({i \in kept : FileTarget(i) = id})
OutOf(kept, id) == Cardinality({i \in kept : FileSource(i) = id})
FileIn(id) == InOf(KeptIdx, id)
FileConnections(id) == InOf(KeptIdx, id) + OutOf(KeptIdx, id)
LoadedType(id) == DictAt(gq.nodes, id).type

\* the ordered rule list of the claim
TierOf(type, connections, incoming) ==
    CASE connections >= 20 \/ type \in {"router", "config"} -> "CRITICAL"
      [] ~(connections >= 20 \/ type \in {"router", "config"})
         /\ (connections >= 10 \/ (incoming >= 5 /\ type \in {"collection", "service"}))
            -> "HIGH"
      [] ~(connections >= 20 \/ type \in {"router", "config"})
         /\ ~(connections >= 10 \/ (incoming >= 5 /\ type \in {"collection", "service"}))
         /\ (connections >= 4 \/ incoming >= 2)
            -> "MEDIUM"
      [] OTHER -> "LOW"

\* C6: for every node get_risk_level returns the tier of the first matching
\* rule (CRITICAL, HIGH, MEDIUM, LOW in this order), a function of the node's
\* type, connection count and incoming count alone; cmd_file reports it.
C6_RiskTierRules ==
    Loaded =>
       LET kept == KeptIdx
           Tier(id) == TierOf(LoadedType(id), InOf(kept, id) + OutOf(kept, id),
                              InOf(kept, id))
       IN /\ \A id \in FileNodeIds :
                get_risk_level(gq, id) =
                   <<Tier(id), InOf(kept, id) + OutOf(kept, id), InOf(kept, id)>>
          /\ phase = "done" =>
                \A i \in 1..Len(output) :
                   output[i].found => output[i].risk[1] = Tier(output[i].node)

\* cmd_file reported a service with exactly 5 dependents and fewer than 10
\* connections as HIGH (the service rule at its lower boundary)
C6_WitnessHighByDependents ==
    /\ phase = "done"
    /\ \E i \in 1..Len(output) :
          /\ output[i].found
          /\ LoadedType(output[i].node) = "service"
          /\ FileIn(output[i].node) = 5
          /\ FileConnections(output[i].node) < 10
          /\ output[i].risk[1] = "HIGH"

\* cmd_file reported a node of type file with exactly 20 connections as
\* CRITICAL (the count rule at its lower boundary)
C6_WitnessCritical ==
    /\ phase = "done"
    /\ \E i \in 1..Len(output) :
          /\ output[i].found
          /\ LoadedType(output[i].node) = "file"
          /\ FileConnections(output[i].node) = 20
          /\ output[i].risk[1] = "CRITICAL"

\* C7 as stated: a node with zero edges is classified LOW.
C7_ZeroEdgesLow ==
    Loaded =>
       \A id \in FileNodeIds :
          FileConnections(id) = 0 => get_risk_level(gq, id)[1] = "LOW"

\* C7 as amended: a node with zero edges is classified LOW unless its type is
\* router or config, and then it is classified CRITICAL.
C7_ZeroEdgesLowUnlessRouterConfig ==
    Loaded =>
       \A id \in FileNodeIds :
          FileConnections(id) = 0 =>
             get_risk_level(gq, id)[1] =
                IF LoadedType(id) \in {"router", "config"} THEN "CRITICAL" ELSE "LOW"

\* a loaded graph without edges whose hub is a service
C7_Witness ==
    /\ phase = "loaded"
    /\ gq.edges = <<>>
    /\ LoadedType("A") = "service"
    /\ get_risk_level(gq, "A")[1] = "LOW"

----------------------------------------------------------------------------
(* Claims about cmd_impact *)

\* one more reversed edge from a set of nodes
RevStep(R, pairs) == R \cup {p[1] : p \in {q \in pairs : q[2] \in R}}

\* <<R0, R1, ..., Rn>>: Rk holds the nodes at most k reversed edges away
\* from start
RECURSIVE RevLayers(_, _, _)
RevLayers(start, n, pairs) ==
    IF n = 0 THEN << {start} >>
    ELSE LET prev == RevLayers(start, n - 1, pairs)
         IN Append(prev, RevStep(prev[Len(prev)], pairs))

\* the nodes at most k reversed kept edges away from start
RevWithin(start, k) == RevLayers(start, k, KeptPairs)[k + 1]

\* the shortest distance along reversed edges of a node some layer holds
DistIn(layers, n) ==
    CHOOSE k \in 0..(Len(layers) - 1) :
        n \in layers[k + 1] /\ (k > 0 => n \notin layers[k])

\* the nodes other than start at reversed distance 1 to 4
ImpactExpected(start) == RevWithin(start, 4) \ {start}

\* the BFS of the node under analysis has run to its end
ImpactSearchOver == phase = "impact" /\ queue = <<>>

ReportedPairs(report) ==
    UNION {{<<report.levels[l].nodes[k], report.levels[l].depth>> :
               k \in 1..Len(report.levels[l].nodes)} :
           l \in 1..Len(report.levels)}

\* C9: every affected node is recorded once, at its shortest reversed
\* distance from the start; a recorded depth never changes while the start
\* is analysed; the report lists every affected node once, in the level of
\* that depth, the levels in ascending order.
C9_Recorded ==
    phase = "impact" =>
       LET layers == RevLayers(matches[idx].id, Cardinality(FileNodeIds), KeptPairs)
       IN /\ \A i, j \in 1..Len(affected) : affected[i][1] = affected[j][1] => i = j
          /\ \A i \in 1..Len(affected) :
                /\ affected[i][1] \in layers[Len(layers)]
                /\ affected[i][2] = DistIn(layers, affected[i][1])

C9_Kept ==
    /\ (phase = "impact" /\ phase' = "impact" /\ idx' = idx) =>
          /\ Len(affected') >= Len(affected)
          /\ \A i \in 1..Len(affected) : affected'[i] = affected[i]
    /\ (phase = "impact" /\ Len(output') = Len(output) + 1) =>
          LET report == output'[Len(output')]
          IN /\ ReportedPairs(report) =
                   {<<affected[i][1], affected[i][2]>> : i \in 1..Len(affected)}
             /\ \A l \in 1..Len(report.levels) :
                   /\ report.levels[l].count = Len(report.levels[l].nodes)
                   /\ \A k1, k2 \in 1..Len(report.levels[l].nodes) :
                         report.levels[l].nodes[k1] = report.levels[l].nodes[k2]
                         => k1 = k2
                   /\ \A l2 \in 1..Len(report.levels) :
                         l < l2 => report.levels[l].depth < report.levels[l2].depth

C9_DepthIsShortestDistance == []C9_Recorded /\ [][C9_Kept]_vars

\* a report about a node that is reached by two reversed paths of different
\* length and is listed at the shorter one
C9_Witness ==
    /\ phase = "done"
    /\ output # <<>>
    /\ output[1].found
    /\ output[1].node = "N1"
    /\ \E i \in KeptIdx : FileSource(i) = "N4" /\ FileTarget(i) = "N1"
    /\ \E i \in KeptIdx : FileSource(i) = "N4" /\ FileTarget(i) = "N3"
    /\ "N3" \in RevWithin("N1", 2)
    /\ <<"N4", 1>> \in ReportedPairs(output[1])

----------------------------------------------------------------------------
(* Claims about cmd_path *)

\* cmd_path has run a search (both arguments matched) and has returned
PathSearched == phase = "done" /\ output # <<>> /\ end_ids # {}

\* <<U0, U1, ..., Un>>: Uk holds the nodes at most k kept edges, taken in
\* either direction, away from start
RECURSIVE HopLayers(_, _, _)
HopLayers(start, n, pairs) ==
    IF n = 0 THEN << {start} >>
    ELSE LET prev == HopLayers(start, n - 1, pairs)
         IN Append(prev, prev[Len(prev)] \cup Neighbours(prev[Len(prev)], pairs))

\* the least number of hops from start to a node of ends
HopsTo(layers, ends) ==
    CHOOSE k \in 0..(Len(layers) - 1) :
        /\ layers[k + 1] \cap ends # {}
        /\ k > 0 => layers[k] \cap ends = {}

\* C11: when the undirected component of the start has at most 500 nodes,
\* cmd_path returns a path iff a target node lies in the component, and
\* "no path found" otherwise; the path starts at the start node, ends at a
\* target, joins consecutive nodes by a kept edge in either direction,
\* repeats no node, and has the least number of hops to any target.
C11_PathIffReachableAndShortest ==
    PathSearched =>
       LET start == matches[1].id
           pairs == KeptPairs
           layers == HopLayers(start, Cardinality(FileNodeIds), pairs)
           component == layers[Len(layers)]
           r == output[1]
       IN Cardinality(component) <= 500 =>
             /\ r.found <=> component \cap end_ids # {}
             /\ ~r.found => r = NoPathFound[1]
             /\ r.found =>
                   /\ r.path[1] = start
                   /\ r.path[Len(r.path)] \in end_ids
                   /\ r.to = r.path[Len(r.path)]
                   /\ \A i \in 1..(Len(r.path) - 1) :
                         \/ <<r.path[i], r.path[i + 1]>> \in pairs
                         \/ <<r.path[i + 1], r.path[i]>> \in pairs
                   /\ \A i, j \in 1..Len(r.path) : r.path[i] = r.path[j] => i = j
                   /\ Len(r.path) - 1 = HopsTo(layers, end_ids)

\* the search returned the one-hop path A, C over an edge taken backwards
\* although the file first lists the two-hop way A -> B -> C
C11_Witness ==
    /\ PathSearched
    /\ output[1].found
    /\ output[1].path = <<"A", "C">>
    /\ Len(gq.edges) = 3
    /\ <<gq.edges[1].source, gq.edges[1].target>> = <<"A", "B">>
    /\ <<gq.edges[2].source, gq.edges[2].target>> = <<"B", "C">>
    /\ <<gq.edges[3].source, gq.edges[3].target>> = <<"C", "A">>

\* the kept file edges from s to t, in file order
EdgesFromTo(s, t) == {i \in KeptIdx : FileSource(i) = s /\ FileTarget(i) = t}

FileEdgeType(i) == Member(graph_file.edges[i], "type")

\* C12: every hop of a returned path carries exactly one annotation: the
\* type of the first kept edge from path[i] to path[i+1], marked as
\* outgoing, when there is such an edge; otherwise the type of the first
\* kept edge from path[i+1] to path[i], marked as incoming.
C12_OneAnnotationPerHop ==
    (PathSearched /\ output[1].found) =>
       LET r == output[1]
       IN /\ Len(r.hops) = Len(r.path) - 1
          /\ \A i \in 1..(Len(r.path) - 1) :
                LET fwd == EdgesFromTo(r.path[i], r.path[i + 1])
                    bwd == EdgesFromTo(r.path[i + 1], r.path[i])
                IN /\ Len(r.hops[i]) = 1
                   /\ IF fwd # {}
                      THEN r.hops[i][1] =
                             [direction |-> "down", type |-> FileEdgeType(Min(fwd))]
                      ELSE /\ bwd # {}
                           /\ r.hops[i][1] =
                                [direction |-> "up", type |-> FileEdgeType(Min(bwd))]

\* a hop from A to C whose only edges run backwards, C -> A, with two
\* types: it is marked as incoming with the type listed first
C12_Witness ==
    /\ PathSearched
    /\ output[1].found
    /\ output[1].path = <<"A", "C">>
    /\ Len(gq.edges) = 2
    /\ output[1].hops[1][1].direction = "up"
    /\ gq.edges[1].type # gq.edges[2].type
    /\ <<gq.edges[1].source, gq.edges[1].target>> = <<"C", "A">>
    /\ <<gq.edges[2].source, gq.edges[2].target>> = <<"C", "A">>
    /\ output[1].hops[1][1].type = gq.edges[1].type

\* a hop with edges both ways, the incoming one listed first: the outgoing
\* one is shown
C12_WitnessOutgoingFirst ==
    /\ PathSearched
    /\ output[1].found
    /\ output[1].path = <<"A", "C">>
    /\ Len(gq.edges) >= 2
    /\ <<gq.edges[1].source, gq.edges[1].target>> = <<"C", "A">>
    /\ <<gq.edges[2].source, gq.edges[2].target>> = <<"A", "C">>
    /\ gq.edges[1].type # gq.edges[2].type
    /\ output[1].hops[1][1] = [direction |-> "down", type |-> gq.edges[2].type]

\* C13: once the visited set of cmd_path holds more than 500 nodes the
\* command has returned "no path found": it dequeues and expands no further
\* node, and returns neither a path nor a part of one, also when a target
\* is joined to the start.
C13_LimitEndsSearch ==
    /\ [](Cardinality(visited) > 500 =>
             /\ phase = "done"
             /\ output = NoPathFound)
    /\ [][Cardinality(visited) > 500 => UNCHANGED <<queue, visited, output>>]_vars

\* the start H has 500 neighbours, the target S1 first among them: the
\* first iteration marks 501 nodes and the search is given up
C13_Witness ==
    /\ phase = "done"
    /\ Cardinality(visited) = 501
    /\ matches[1].id = "H"
    /\ end_ids = {"S1"}
    /\ "S1" \in visited
    /\ <<"H", "S1">> \in KeptPairs
    /\ output = NoPathFound

\* with 499 neighbours the same search marks 500 nodes and finds the target
C13_WitnessBelowLimit ==
    /\ phase = "done"
    /\ Cardinality(visited) = 500
    /\ matches[1].id = "H"
    /\ end_ids = {"S1"}
    /\ output # <<>>
    /\ output[1].found
    /\ output[1].path = <<"H", "S1">>

----------------------------------------------------------------------------
(* Claims about cmd_dead_code *)

DeadCodeReported ==
    phase = "done" /\ output # <<>> /\ "isolated_count" \in DOMAIN output[1]

\* the ids of the node records of the file, in file order
FileIds == [i \in 1..Len(graph_file.nodes) |-> Member(graph_file.nodes[i], "id")]

\* the type of every listed id (that of its last record, the one a load
\* keeps)
FileTypes ==
    LET ids == FileIds
    IN [id \in Range(ids) |->
          Member(graph_file.nodes[Max({i \in DOMAIN ids : ids[i] = id})], "type")]

\* the nodes that are an endpoint of no kept edge and are not of type config
ExpectedIsolated ==
    LET kept == KeptIdx
        touched == {FileSource(i) : i \in kept} \cup {FileTarget(i) : i \in kept}
        types == FileTypes
    IN {id \in DOMAIN types : id \notin touched /\ types[id] # "config"}

\* the nodes with no incoming and some outgoing kept edge whose type is
\* none of config, test, script
ExpectedNoDependents ==
    LET kept == KeptIdx
        sources == {FileSource(i) : i \in kept}
        targets == {FileTarget(i) : i \in kept}
        types == FileTypes
    IN {id \in DOMAIN types :
           /\ id \in sources
           /\ id \notin targets
           /\ types[id] \notin {"config", "test", "script"}}

\* the ids the report lists as isolated
IsolatedListed(r) == UNION {Range(r.groups[i].shown) : i \in 1..Len(r.groups)}

\* the ids of S in the order in which the file first lists them
InFileOrder(S) ==
    LET ids == FileIds
        firsts == SelectSeq([i \in 1..Len(ids) |-> i],
                      LAMBDA i : ids[i] \in S /\ \A j \in 1..(i - 1) : ids[j] # ids[i])
    IN [k \in 1..Len(firsts) |-> ids[firsts[k]]]

\* list is the first n ids of S in the order of the file
IsFirstOf(list, n, S) == list = Take(InFileOrder(S), n)

\* C14 as stated: the isolated report contains exactly the nodes that are
\* an endpoint of no kept edge and whose type is not config.
C14_IsolatedListedExactly ==
    DeadCodeReported => IsolatedListed(output[1]) = ExpectedIsolated

\* C14 as amended: the number of isolated nodes the report states is the
\* number of nodes that are an endpoint of no kept edge and not of type
\* config (a zero-edge file is counted, a zero-edge config is not, a node
\* with only ghost edges is); the report groups them by type and lists all
\* of a group with --all, otherwise only the first 8 of the group in
\* snapshot order, with the number of the others.
C14_IsolatedCountedAndShownUpTo8 ==
    DeadCodeReported =>
       LET r == output[1]
           expected == ExpectedIsolated
           types == FileTypes
       IN /\ r.isolated_count = Cardinality(expected)
          /\ {r.groups[i].type : i \in 1..Len(r.groups)}
                = {types[id] : id \in expected}
          /\ \A i, j \in 1..Len(r.groups) :
                r.groups[i].type = r.groups[j].type => i = j
          /\ \A i \in 1..Len(r.groups) :
                LET g == r.groups[i]
                    of_type == {id \in expected : types[id] = g.type}
                    n == Cardinality(of_type)
                IN /\ g.count = n
                   /\ IsFirstOf(g.shown, IF r.show_all \/ n <= 8 THEN n ELSE 8, of_type)
                   /\ g.more = n - Len(g.shown)

\* without --all, more than 8 isolated nodes of type file, among them X
\* whose only edge is a ghost edge: X is listed, some others are not
C14_Witness ==
    /\ DeadCodeReported
    /\ ~output[1].show_all
    /\ gq._ghost_edges = 1
    /\ gq.edges = <<>>
    /\ output[1].groups[1].more > 0
    /\ output[1].groups[1].shown[1] = "X"
    /\ \E i \in FileEdgeIdx : FileSource(i) = "X"

\* C15 as stated: the no-dependents report contains exactly the nodes with
\* zero incoming kept edges, at least one outgoing kept edge and a type
\* outside {config, test, script}, and shares no node with the isolated
\* report.
C15_NoDependentsListedExactly ==
    DeadCodeReported =>
       /\ Range(output[1].no_dependents_shown) = ExpectedNoDependents
       /\ Range(output[1].no_dependents_shown) \cap IsolatedListed(output[1]) = {}

\* C15 as amended: the number of no-dependents nodes the report states is
\* the number of nodes with zero incoming kept edges, at least one outgoing
\* kept edge and a type outside {config, test, script}; the report lists
\* all of them with --all, otherwise only the first 15 in snapshot order,
\* with the number of the others; none of them is isolated.
C15_NoDependentsCountedAndShownUpTo15 ==
    DeadCodeReported =>
       LET r == output[1]
           expected == ExpectedNoDependents
           n == Cardinality(expected)
       IN /\ r.no_dependents_count = n
          /\ IsFirstOf(r.no_dependents_shown,
                       IF r.show_all \/ n <= 15 THEN n ELSE 15, expected)
          /\ r.no_dependents_more = n - Len(r.no_dependents_shown)
          /\ expected \cap ExpectedIsolated = {}
          /\ Range(r.no_dependents_shown) \cap IsolatedListed(r) = {}

\* without --all, 17 nodes with outgoing edges only: the service X and
\* D1 .. D16; the first 15 are listed
C15_Witness ==
    /\ DeadCodeReported
    /\ ~output[1].show_all
    /\ output[1].no_dependents_count = 17
    /\ Len(output[1].no_dependents_shown) = 15
    /\ output[1].no_dependents_shown[1] = "X"
    /\ output[1].no_dependents_more = 2

----------------------------------------------------------------------------
(* Claims about the object during a series of commands *)

\* the fields of the object that make up the index
IndexOf(self) ==
    <<self.nodes, self.edges, self.outgoing, self.incoming,
      self.connection_counts, self._ghost_edges>>

\* C16: once the graph file is loaded, no step of a query command, whatever
\* ran before it, changes the node table, the kept edge list, the outgoing
\* or incoming adjacency (their keys included), the connection counts or the
\* ghost count
C16_QueriesKeepIndex ==
    [][phase \notin {"build", "written"} => IndexOf(gq)' = IndexOf(gq)]_vars

\* the dead-code report has run as the third command or later on an object
\* with a ghost edge and a connected node that has no key in "incoming",
\* and the index is still the one built from the file
C16_Witness ==
    /\ DeadCodeReported
    /\ calls >= 2
    /\ gq._ghost_edges > 0
    /\ \E id \in ConnectedIds(gq) : ~DictHas(gq.incoming, id)
    /\ IndexOf(gq) = IndexOf(GraphQuery_init(graph_file))

----------------------------------------------------------------------------
(* Claims about the risky-files ranking.  Degrees, types and positions are *)
(* read off the graph file.                                                *)

RiskyFilesReported ==
    phase = "done" /\ output # <<>> /\ "ranking" \in DOMAIN output[1]

\* the type factor of the claim, in tenths
FactorTenths(type) ==
    CASE type \in {"collection", "service"} -> 15
      [] type \in {"router", "config"} -> 20
      [] type = "test" -> 1
      [] OTHER -> 10

FileOut(id) == OutOf(KeptIdx, id)

\* (incoming*3 + outgoing + connections) times the factor, in tenths
ExpectedScore(id) ==
    (FileIn(id) * 3 + FileOut(id) + FileConnections(id)) * FactorTenths(FileTypes[id])

\* the place of a node in the snapshot: that of the first record of its id
FilePos(id) == Min({i \in DOMAIN FileIds : FileIds[i] = id})

\* a ranks before b: higher score, or equal score and earlier in the snapshot
RanksBefore(a, b) ==
    \/ ExpectedScore(a) > ExpectedScore(b)
    \/ ExpectedScore(a) = ExpectedScore(b) /\ FilePos(a) < FilePos(b)

\* C17: the ranking of cmd_risky_files holds the top N nodes (all nodes if
\* there are fewer), each with the score (incoming*3 + outgoing +
\* connections) times its type factor, in descending order of score, nodes
\* of equal score in snapshot order; every node left out ranks after every
\* node listed
C17_ScoreAndStableDescendingOrder ==
    RiskyFilesReported =>
        LET r == output[1].ranking
            listed == {r[i].node : i \in DOMAIN r}
        IN /\ Len(r) = Min({output[1].top, Cardinality(FileNodeIds)})
           /\ listed \subseteq FileNodeIds
           /\ \A i \in DOMAIN r : r[i].score = ExpectedScore(r[i].node)
           /\ \A i, j \in DOMAIN r : i < j => RanksBefore(r[i].node, r[j].node)
           /\ \A id \in FileNodeIds \ listed :
                  \A i \in DOMAIN r : RanksBefore(r[i].node, id)

\* top 2 of three nodes: the file C, last in the snapshot, with two
\* dependents comes first; the services A and B have the same score 3.0 and
\* A, earlier in the snapshot, takes the second place
C17_Witness ==
    /\ RiskyFilesReported
    /\ output[1].top = 2
    /\ Len(output[1].ranking) = 2
    /\ output[1].ranking[1].node = "C"
    /\ output[1].ranking[1].score = 80
    /\ output[1].ranking[2].node = "A"
    /\ output[1].ranking[2].score = 30
    /\ FileTypes["A"] = "service" /\ FileTypes["B"] = "service"
    /\ ExpectedScore("B") = 30

\* the rows of the ranking that hold a router and a file of the same degree
RouterFilePairs ==
    LET r == output[1].ranking
    IN {p \in (DOMAIN r) \X (DOMAIN r) :
            /\ FileTypes[r[p[1]].node] = "router"
            /\ FileTypes[r[p[2]].node] = "file"
            /\ FileConnections(r[p[1]].node) = FileConnections(r[p[2]].node)}

\* C18 as stated: a router and a file of identical degree: the router has
\* the strictly higher score and is ranked strictly before the file
C18_RouterStrictlyBeforeFile ==
    RiskyFilesReported =>
        \A p \in RouterFilePairs :
            /\ output[1].ranking[p[1]].score > output[1].ranking[p[2]].score
            /\ p[1] < p[2]

\* C18: a router and a file of identical degree: the score of the router is
\* never the lower one; it is strictly higher, and the router ranked
\* strictly before the file, when the router has an incoming edge or the
\* file an outgoing one; when every edge of the router is outgoing and every
\* edge of the file incoming (degree 0 included) the scores are equal and
\* the two are ranked in snapshot order.  A listed file of a degree that an
\* unlisted router has is not ranked before it.
C18_RouterNotBelowFile ==
    RiskyFilesReported =>
        LET r == output[1].ranking
            listed == {r[i].node : i \in DOMAIN r}
        IN /\ \A p \in RouterFilePairs :
                  LET router == r[p[1]]
                      file == r[p[2]]
                  IN /\ router.score >= file.score
                     /\ IF FileIn(router.node) > 0 \/ FileOut(file.node) > 0
                        THEN router.score > file.score /\ p[1] < p[2]
                        ELSE /\ router.score = file.score
                             /\ p[1] < p[2] <=> FilePos(router.node) < FilePos(file.node)
           /\ \A id \in FileNodeIds \ listed :
                  FileTypes[id] = "router" =>
                      \A i \in DOMAIN r :
                          (/\ FileTypes[r[i].node] = "file"
                           /\ FileConnections(r[i].node) = FileConnections(id))
                          => /\ FileIn(id) = 0 /\ FileOut(r[i].node) = 0
                             /\ FilePos(r[i].node) < FilePos(id)

\* the file A and the router B have one edge each; B has a dependent, so
\* its score 8.0 is above the 2.0 of A and B is ranked first although A is
\* first in the snapshot
C18_Witness ==
    /\ RiskyFilesReported
    /\ FileTypes["A"] = "file" /\ FileTypes["B"] = "router"
    /\ FileConnections("A") = 1 /\ FileConnections("B") = 1
    /\ FileIn("B") = 1
    /\ Len(output[1].ranking) >= 2
    /\ output[1].ranking[1].node = "B" /\ output[1].ranking[1].score = 80
    /\ \E j \in 2..Len(output[1].ranking) :
          output[1].ranking[j].node = "A" /\ output[1].ranking[j].score = 20

\* the router B has one outgoing edge and the file A one incoming edge:
\* both score 4.0 and A, first in the snapshot, is ranked before the router
C18_WitnessTie ==
    /\ RiskyFilesReported
    /\ FileTypes["A"] = "file" /\ FileTypes["B"] = "router"
    /\ FileIn("A") = 1 /\ FileOut("A") = 0
    /\ FileIn("B") = 0 /\ FileOut("B") = 1
    /\ Len(output[1].ranking) >= 2
    /\ output[1].ranking[1].node = "A" /\ output[1].ranking[1].score = 40
    /\ output[1].ranking[2].node = "B" /\ output[1].ranking[2].score = 40

----------------------------------------------------------------------------
(* Claims about the round trip.  The reference values are computed on the  *)
(* nodes and edges the builder holds; as in the index, an edge counts when  *)
(* both its endpoints are registered nodes.                                *)

BuilderIds == DictKeys(builder.nodes)

BuilderKept ==
    {i \in DOMAIN builder.edges :
        /\ DictHas(builder.nodes, builder.edges[i].source)
        /\ DictHas(builder.nodes, builder.edges[i].target)}

BuilderIn(id) == Cardinality({i \in BuilderKept : builder.edges[i].target = id})
BuilderOut(id) == Cardinality({i \in BuilderKept : builder.edges[i].source = id})
BuilderDegree(id) == BuilderIn(id) + BuilderOut(id)
BuilderType(id) == DictAt(builder.nodes, id).type
BuilderTier(id) == TierOf(BuilderType(id), BuilderDegree(id), BuilderIn(id))

BuilderScore(id) ==
    (BuilderIn(id) * 3 + BuilderOut(id) + BuilderDegree(id)) * FactorTenths(BuilderType(id))

BuilderPos(id) == CHOOSE i \in DOMAIN builder.nodes : builder.nodes[i][1] = id

BuilderRanksBefore(a, b) ==
    \/ BuilderScore(a) > BuilderScore(b)
    \/ BuilderScore(a) = BuilderScore(b) /\ BuilderPos(a) < BuilderPos(b)

\* C19: after to_json, the write and the load, the object holds the nodes
\* of the builder in the builder's order, and every node has the degree and
\* the risk tier computed on the builder's nodes and edges; the risky-files
\* ranking is the ranking of the builder's nodes by the score computed on
\* the builder
C19_RoundTripKeepsDegreeTierRanking ==
    Loaded =>
        /\ DictKeys(gq.nodes) = BuilderIds
        /\ \A id \in Range(BuilderIds) :
              /\ Connections(id) = BuilderDegree(id)
              /\ InLen(id) = BuilderIn(id)
              /\ OutLen(id) = BuilderOut(id)
              /\ get_risk_level(gq, id)[1] = BuilderTier(id)
        /\ RiskyFilesReported =>
              LET r == output[1].ranking
                  listed == {r[i].node : i \in DOMAIN r}
              IN /\ Len(r) = Min({output[1].top, Len(BuilderIds)})
                 /\ listed \subseteq Range(BuilderIds)
                 /\ \A i \in DOMAIN r :
                       /\ r[i].score = BuilderScore(r[i].node)
                       /\ r[i].risk = BuilderTier(r[i].node)
                 /\ \A i, j \in DOMAIN r :
                       i < j => BuilderRanksBefore(r[i].node, r[j].node)
                 /\ \A id \in Range(BuilderIds) \ listed :
                       \A i \in DOMAIN r : BuilderRanksBefore(r[i].node, id)

\* the builder holds A, then B, and two edges from A to B: after the round
\* trip B has degree 2 and tier MEDIUM, A tier LOW, and the ranking lists B
\* before A
C19_Witness ==
    /\ RiskyFilesReported
    /\ BuilderIds = <<"A", "B">>
    /\ Len(builder.edges) = 2
    /\ BuilderIn("B") = 2
    /\ Connections("B") = 2
    /\ get_risk_level(gq, "B")[1] = "MEDIUM"
    /\ get_risk_level(gq, "A")[1] = "LOW"
    /\ Len(output[1].ranking) = 2
    /\ output[1].ranking[1].node = "B"
    /\ output[1].ranking[2].node = "A"

\* the builder holds an edge to an id that was never registered: after the
\* round trip the edge is a ghost edge and counts for no degree
C19_WitnessDangling ==
    /\ RiskyFilesReported
    /\ BuilderIds = <<"A">>
    /\ Len(builder.edges) >= 1
    /\ gq._ghost_edges = Len(builder.edges)
    /\ Connections("A") = 0
    /\ Len(output[1].ranking) = 1

----------------------------------------------------------------------------
(* Claims about the statistics of the export.  The reference counts are    *)
(* taken on the nodes and edges the builder holds.                         *)

BuilderNodeTypeAt(i) == builder.nodes[i][2].type
BuilderEdgeTypeAt(i) == builder.edges[i].type

\* counts is the table of the types that TypeAt(i), i in places, takes: every
\* type once with the number of its elements, in descending order of the
\* number, equal numbers in the order of the first element of each type
IsFrequencyTable(counts, places, TypeAt(_)) ==
    LET First(t) == Min({i \in places : TypeAt(i) = t})
    IN /\ {counts[k][1] : k \in DOMAIN counts} = {TypeAt(i) : i \in places}
       /\ \A k, l \in DOMAIN counts : k # l => counts[k][1] # counts[l][1]
       /\ \A k \in DOMAIN counts :
              counts[k][2] = Cardinality({i \in places : TypeAt(i) = counts[k][1]})
       /\ \A k, l \in DOMAIN counts :
              k < l => \/ counts[k][2] > counts[l][2]
                       \/ /\ counts[k][2] = counts[l][2]
                          /\ First(counts[k][1]) < First(counts[l][1])

RECURSIVE SumOfCounts(_)
SumOfCounts(counts) ==
    IF counts = <<>> THEN 0 ELSE Head(counts)[2] + SumOfCounts(Tail(counts))

\* C20: the exported statistics give total_nodes = number of registered
\* nodes, total_edges = number of stored edges, and for the node types and
\* for the edge types one count per type; the counts sum to the totals and
\* are listed in descending order, equal counts in the order in which the
\* types were first inserted
C20_StatsTotalsAndFrequencies ==
    phase = "written" =>
        LET stats == graph_file.stats
        IN /\ stats.total_nodes = Cardinality({builder.nodes[i][1] : i \in DOMAIN builder.nodes})
           /\ stats.total_edges = Len(builder.edges)
           /\ IsFrequencyTable(stats.node_types, DOMAIN builder.nodes, BuilderNodeTypeAt)
           /\ IsFrequencyTable(stats.edge_types, DOMAIN builder.edges, BuilderEdgeTypeAt)
           /\ SumOfCounts(stats.node_types) = stats.total_nodes
           /\ SumOfCounts(stats.edge_types) = stats.total_edges

\* three edges were stored, the first of a type the two later ones do not
\* have: the export lists the type of the later two first
C20_Witness ==
    /\ phase = "written"
    /\ Len(builder.edges) = 3
    /\ graph_file.stats.total_edges = 3
    /\ Len(graph_file.stats.edge_types) = 2
    /\ graph_file.stats.edge_types[1][2] = 2
    /\ graph_file.stats.edge_types[1][1] # builder.edges[1].type
    /\ graph_file.stats.edge_types[2] = <<builder.edges[1].type, 1>>

\* two nodes of different types and two edges of different types: the
\* counts are equal and the types are listed as first inserted
C20_WitnessTies ==
    /\ phase = "written"
    /\ Len(builder.nodes) = 2 /\ Len(builder.edges) = 2
    /\ graph_file.stats.node_types =
          <<<<BuilderNodeTypeAt(1), 1>>, <<BuilderNodeTypeAt(2), 1>>>>
    /\ graph_file.stats.edge_types =
          <<<<BuilderEdgeTypeAt(1), 1>>, <<BuilderEdgeTypeAt(2), 1>>>>
    /\ BuilderNodeTypeAt(1) = "service"
    /\ BuilderEdgeTypeAt(1) = "imports"

----------------------------------------------------------------------------
(* Claims about the query process *)

\* the commands and the number of arguments each needs
ArgsNeeded ==
    << <<"file", 1>>, <<"impact", 1>>, <<"deps", 1>>, <<"dependents", 1>>,
       <<"model", 1>>, <<"hubs", 0>>, <<"cluster", 1>>, <<"path", 2>>,
       <<"search", 1>>, <<"stats", 0>>, <<"dead_code", 0>>, <<"risky_files", 0>>,
       <<"endpoint", 1>>, <<"overview", 0>>, <<"report", 0>>, <<"changes", 1>> >>

\* the command of the command line is one of the sixteen, in any case and
\* with "-" or "_"
KnownCommand ==
    \E k \in DOMAIN ArgsNeeded : RouteName(call.command) = Chars(ArgsNeeded[k][1])

\* ... and the command line holds the arguments the command needs
EnoughArgs ==
    \E k \in DOMAIN ArgsNeeded :
        /\ RouteName(call.command) = Chars(ArgsNeeded[k][1])
        /\ Len(call.args) >= ArgsNeeded[k][2]

NoGraphFile == ~call.at_path /\ ~call.at_fallback
Malformed == call.content # "snapshot"

C21_WitnessFallback ==
    /\ Exited(0)
    /\ ~call.at_path /\ call.at_fallback
    /\ call.command = Chars("dead-code")
    /\ output # <<>> /\ "isolated_count" \in DOMAIN output[1]

\* the label and the file of the node records of the graph file
FileLabel(i) == Member(graph_file.nodes[i], "label")
FilePath(i) == Member(graph_file.nodes[i], "file")
FileTypeAt(i) == Member(graph_file.nodes[i], "type")

\* the node records a path query matches
PathMatches(query) ==
    {i \in DOMAIN graph_file.nodes :
        \/ Contains(Lower(Strip(query)), Lower(FilePath(i)))
        \/ Contains(Lower(Strip(query)), Lower(FileLabel(i)))}

\* the command line names the given command with the arguments it needs
Runs(name) ==
    /\ call.op = "main" /\ call.parsed
    /\ RouteName(call.command) = Chars(name)
    /\ Len(call.args) >= (IF name = "path" THEN 2 ELSE 1)

\* the query string of the command line matches no node
NoMatch ==
    \/ \E name \in {"file", "impact", "deps", "dependents", "cluster"} :
          Runs(name) /\ PathMatches(call.args[1]) = {}
    \/ Runs("path") /\ (PathMatches(call.args[1]) = {} \/ PathMatches(call.args[2]) = {})
    \/ /\ Runs("search")
       /\ \A i \in DOMAIN graph_file.nodes :
             /\ ~Contains(Lower(Join(call.args)), Lower(FileLabel(i)))
             /\ ~Contains(Lower(Join(call.args)), Lower(FilePath(i)))
    \/ /\ Runs("model")
       /\ \A i \in DOMAIN graph_file.nodes :
             FileTypeAt(i) = "collection" =>
                 ~Contains(Lower(call.args[1]), Lower(FileLabel(i)))
    \/ /\ Runs("endpoint")
       /\ \A i \in DOMAIN graph_file.nodes :
             FileTypeAt(i) = "endpoint" =>
                 /\ i \notin PathMatches(call.args[1])
                 /\ ~Contains(Lower(call.args[1]), Lower(FileLabel(i)))

\* C22: when the query string of file, impact, deps, dependents, model,
\* cluster, path, search or endpoint matches no node, the command runs no
\* traversal and returns a single 'no match' result, and the process exits
\* with code 0; changes reports every path, an unmatched one as not found
\* and every matched one with its first node, in the order given
C22_NotFoundIsNotFatal ==
    /\ (NoMatch /\ phase \notin {"cli", "parsed", "found"}) =>
          /\ phase \in {"loaded", "done", "exit"}
          /\ queue = <<>> /\ visited = {}
          /\ phase = "done" => Len(output) = 1 /\ ~output[1].found
          /\ phase = "exit" =>
                \/ NoGraphFile \/ Malformed
                \/ exit_code = 0 /\ Len(output) = 1 /\ ~output[1].found
    /\ (Runs("changes") /\ phase = "done") =>
          /\ Len(output) = 1
          /\ Len(output[1].files) = Len(call.args)
          /\ \A k \in DOMAIN call.args :
                IF PathMatches(call.args[k]) = {}
                THEN ~output[1].files[k].found
                ELSE /\ output[1].files[k].found
                     /\ output[1].files[k].node =
                            FileIds[Min(PathMatches(call.args[k]))]

\* "impact z" matches no node: the process has ended with code 0 and the
\* 'no match' result, and no node was ever queued
C22_Witness ==
    /\ Exited(0)
    /\ call.command = Chars("impact")
    /\ call.args = << <<"z">> >>
    /\ output = NotFound
    /\ queue = <<>> /\ visited = {}

\* "changes z a": the first path is reported as not found, the second is
\* analysed
C22_WitnessChanges ==
    /\ Exited(0)
    /\ call.command = Chars("changes")
    /\ call.args = << <<"z">>, <<"a">> >>
    /\ ~output[1].files[1].found
    /\ output[1].files[2].found /\ output[1].files[2].node = "A"
    /\ output[1].total > 0

\* the keys of an edge list, in its order
Keys(es) == [i \in 1..Len(es) |-> EdgeKey(es[i])]

\* C23: the edge list is the sequence of the distinct keys (source, target,
\* type) with source # target passed to add_edge, in order of first
\* occurrence: an add_edge call appends its key when it is no self-edge and
\* not yet stored (a stored reverse edge or a stored edge of another type
\* does not count) and changes nothing otherwise, every stored edge keeps
\* its place and content, no other call changes the list, and the exported
\* list is the stored one.
C23_EdgeListIsFirstOccurrences ==
    [][/\ IsAddEdgeStep =>
             /\ Keys(builder'.edges) =
                    IF /\ call'.source # call'.target
                       /\ EdgeKey(call') \notin Range(Keys(builder.edges))
                    THEN Append(Keys(builder.edges), EdgeKey(call'))
                    ELSE Keys(builder.edges)
             /\ SubSeq(builder'.edges, 1, Len(builder.edges)) = builder.edges
       /\ ~IsAddEdgeStep => builder'.edges = builder.edges
       /\ phase' = "written" =>
             /\ Keys(to_json(builder').edges) = Keys(builder'.edges)
             /\ Keys(json_load(graph_file').edges) = Keys(builder'.edges)]_vars

\* an edge, its reverse and the same pair under another type are stored in
\* the order they first came, and a fourth call repeated the first key
C23_Witness ==
    /\ call.op = "add_edge"
    /\ Len(builder.edges) = 3
    /\ EdgeKey(builder.edges[2]) =
          <<builder.edges[1].target, builder.edges[1].source, builder.edges[1].type>>
    /\ builder.edges[3].source = builder.edges[1].source
    /\ builder.edges[3].target = builder.edges[1].target
    /\ builder.edges[3].type # builder.edges[1].type
    /\ EdgeKey(call) = EdgeKey(builder.edges[1])
    /\ calls = 4

\* the edges of the builder with an end that is no registered node id
BuilderGhostIdx ==
    {i \in DOMAIN builder.edges :
        \/ ~DictHas(builder.nodes, builder.edges[i].source)
        \/ ~DictHas(builder.nodes, builder.edges[i].target)}

C24_Exported ==
    /\ phase # "build" =>
          /\ Len(graph_file.edges) = Len(builder.edges)
          /\ \A i \in DOMAIN builder.edges :
                /\ FileSource(i) = builder.edges[i].source
                /\ FileTarget(i) = builder.edges[i].target
          /\ graph_file.stats.total_edges = Len(builder.edges)
    /\ Loaded =>
          /\ gq._ghost_edges = Cardinality(BuilderGhostIdx)
          /\ Len(gq.edges) = Len(builder.edges) - Cardinality(BuilderGhostIdx)
          /\ \A i \in DOMAIN gq.edges :
                /\ DictHas(builder.nodes, gq.edges[i].source)
                /\ DictHas(builder.nodes, gq.edges[i].target)

C24_Stored ==
    (IsAddEdgeStep /\ call'.source # call'.target
        /\ EdgeKey(call') \notin Range(Keys(builder.edges)))
    => builder'.edges =
          Append(builder.edges,
                 [source |-> call'.source, target |-> call'.target,
                  type |-> call'.type, metadata |-> call'.metadata])

\* C24: the builder does not filter ghost edges: add_edge stores a new
\* edge whether or not its source and target are registered node ids, the
\* written file lists every stored edge and counts it in total_edges, and
\* the load alone drops the edges with an unregistered end, counting them
\* as ghost edges.
C24_BuilderKeepsGhostEdges == []C24_Exported /\ [][C24_Stored]_vars

\* two edges to an id that was never registered were stored, written and
\* counted, and the load dropped both
C24_Witness ==
    /\ phase = "loaded"
    /\ DictKeys(builder.nodes) = <<"A">>
    /\ Len(builder.edges) = 2
    /\ graph_file.stats.total_edges = 2
    /\ gq._ghost_edges = 2
    /\ gq.edges = <<>>

\* an edge was stored while no node was registered yet
C24_WitnessNotYet ==
    /\ phase = "build"
    /\ builder.nodes = <<>>
    /\ Len(builder.edges) = 1

----------------------------------------------------------------------------
(* Claims about the viewer *)

\* the places of the node objects that pass the filters, and their ids
VisiblePlaces == {i \in DOMAIN viewer.nodes : isVis(viewer, viewer.nodes[i])}
VisibleIds == {viewer.nodes[i].id : i \in VisiblePlaces}

\* the edges of the page that pass the edge filter and join two visible
\* node objects
VisibleEdgeIdx == {k \in DOMAIN viewer.edges : isEdgeVis(viewer, viewer.edges[k])}

\* the components of the visible subgraph over the node objects
ObjectPairs == {<<viewer.edges[k].src, viewer.edges[k].tgt>> : k \in VisibleEdgeIdx}
ObjectComponents ==
    {Closure({i}, Len(viewer.nodes), ObjectPairs) \cap VisiblePlaces : i \in VisiblePlaces}

\* the components of the visible subgraph over the ids
IdPairs == {<<viewer.edges[k].source, viewer.edges[k].target>> : k \in VisibleEdgeIdx}
IdComponents ==
    {Closure({id}, Len(viewer.nodes), IdPairs) \cap VisibleIds : id \in VisibleIds}

DistinctIds ==
    \A i, j \in DOMAIN viewer.nodes : viewer.nodes[i].id = viewer.nodes[j].id => i = j

C25_WitnessBackward ==
    /\ viewer.loaded /\ DistinctIds
    /\ viewer.visible = 3
    /\ Len(viewer.edges) = 2
    /\ viewer.edges[1].target = viewer.edges[2].target
    /\ viewer.edges[1].source # viewer.edges[2].source
    /\ Cardinality(VisibleEdgeIdx) = 2
    /\ viewer.clusters = 1

----------------------------------------------------------------------------
(* Claims about the safety limit of cmd_path *)

\* a path search has ended
PathEnded == phase = "done" /\ matches # <<>> /\ visited # {}

PathStart == matches[1].id

\* the nodes one kept edge away from the start, the start left out
StartNeighbours == Neighbours({PathStart}, KeptPairs) \ {PathStart}

\* the neighbours of the start in the order the first iteration marks them:
\* the targets of its outgoing edges, then the sources of its incoming ones
StartAdjacency ==
    LET kept == SelectSeq([i \in FileEdgeIdx |-> i], LAMBDA i : i \in KeptIdx)
        out == SelectSeq(kept, LAMBDA i : FileSource(i) = PathStart)
        inc == SelectSeq(kept, LAMBDA i : FileTarget(i) = PathStart)
    IN [k \in 1..Len(out) |-> FileTarget(out[k])]
       \o [k \in 1..Len(inc) |-> FileSource(inc[k])]

\* the node is the start or one of the nodes the first iteration marks as
\* the 2nd to the 500th: these are among the first 500 nodes marked
MarkedAmongFirst(id) ==
    \/ id = PathStart
    \/ \E p \in DOMAIN StartAdjacency :
          /\ StartAdjacency[p] = id
          /\ Cardinality({StartAdjacency[j] : j \in 1..(p - 1)} \ {PathStart}) + 2 <= 500

\* C26 as stated: when a node of the target set is among the first 500
\* nodes marked visited (the start included), cmd_path returns a path to a
\* target node; in particular a target that is a direct neighbour of the
\* start is always found.
C26_TargetAmongFirst500Found ==
    PathEnded =>
       /\ (\E t \in end_ids : MarkedAmongFirst(t)) =>
             output[1].found /\ output[1].to \in end_ids
       /\ (end_ids \cap StartNeighbours # {}) =>
             output[1].found /\ output[1].to \in end_ids

\* C26 as amended: when a node of the target set has been marked visited
\* and the search ends with at most 500 nodes marked (the start included),
\* cmd_path has returned a path from the start to a target node; a target
\* that is a direct neighbour of the start is not found when the start,
\* itself no target, has 500 or more neighbours.
C26_TargetFoundBelowLimit ==
    PathEnded =>
       /\ (end_ids \cap visited # {} /\ Cardinality(visited) <= 500) =>
             /\ output[1].found
             /\ output[1].to \in end_ids
             /\ output[1].path[1] = PathStart
             /\ output[1].path[Len(output[1].path)] = output[1].to
       /\ (PathStart \notin end_ids /\ Cardinality(StartNeighbours) >= 500) =>
             output = NoPathFound

\* the search from P marks P, the hub and its 498 spokes, 500 nodes in all,
\* and returns the path to the first spoke
C26_Witness ==
    /\ PathEnded
    /\ Cardinality(visited) = 500
    /\ PathStart = "P"
    /\ end_ids = {"S1"}
    /\ output[1].found
    /\ output[1].path = <<"P", "H", "S1">>

\* the target S1 is the first of the 500 neighbours of the start H, the
\* second node marked, and is not found
C26_WitnessNeighbourLost ==
    /\ PathEnded
    /\ PathStart = "H"
    /\ Cardinality(StartNeighbours) = 500
    /\ end_ids = {"S1"}
    /\ StartAdjacency[1] = "S1"
    /\ MarkedAmongFirst("S1")
    /\ output = NoPathFound

----------------------------------------------------------------------------
(* Claims about the start node of cmd_impact *)

C28_NotAffected ==
    phase = "impact" => ~DictHas(affected, matches[idx].id)

C28_NotCounted ==
    (phase = "impact" /\ Len(output') = Len(output) + 1) =>
       LET report == output'[Len(output')]
       IN /\ report.node = matches[idx].id
          /\ report.node \notin {pair[1] : pair \in ReportedPairs(report)}
          /\ report.total_affected =
                Cardinality(Range(DictKeys(affected)) \ {report.node})

\* C28: the start node of cmd_impact is never in its own affected set, is
\* listed in no level of its report and is not counted in the total, also
\* when it lies on a dependency cycle or carries a self-edge.
C28_StartNeverAffected == []C28_NotAffected /\ [][C28_NotCounted]_vars

\* N1 and N2 depend on each other: the report of N1 counts N2 and not N1
C28_Witness ==
    /\ phase = "done"
    /\ output # <<>>
    /\ output[1].found
    /\ output[1].node = "N1"
    /\ <<"N1", "N2">> \in KeptPairs
    /\ <<"N2", "N1">> \in KeptPairs
    /\ output[1].total_affected = 1

\* N1 has an edge to itself and a dependent N2
C28_WitnessSelfEdge ==
    /\ phase = "done"
    /\ output # <<>>
    /\ output[1].found
    /\ output[1].node = "N1"
    /\ <<"N1", "N1">> \in KeptPairs
    /\ <<"N2", "N1">> \in KeptPairs
    /\ output[1].total_affected >= 1

----------------------------------------------------------------------------
(* Claims about the termination of the traversals *)

TraversalRunning == phase \in {"impact", "cluster", "path"}

\* the ids of the queue entries: cmd_cluster queues ids, cmd_impact and
\* cmd_path queue pairs that begin with the id
QueueIdsOf(q, ph) == [i \in 1..Len(q) |-> IF ph = "cluster" THEN q[i] ELSE q[i][1]]

\* an upper bound of the number of iterations left
IterationsLeft(vis, q) == 2 * Cardinality(FileNodeIds \ vis) + Len(q)

C27_QueuedOnce ==
    TraversalRunning =>
       LET ids == QueueIdsOf(queue, phase)
       IN /\ \A i, j \in 1..Len(ids) : ids[i] = ids[j] => i = j
          /\ Range(ids) \subseteq visited

C27_Iteration ==
    (TraversalRunning /\ queue # <<>>) =>
       LET before == QueueIdsOf(queue, phase)
           after == QueueIdsOf(queue', phase)
           added == {after[i] : i \in Len(queue)..Len(after)}
       IN /\ Len(after) >= Len(before) - 1
          /\ SubSeq(after, 1, Len(before) - 1) = Tail(before)
          /\ added \cap visited = {}
          /\ visited' = visited \cup added
          /\ IterationsLeft(visited', queue') < IterationsLeft(visited, queue)

FileEdgeTypeAt(i) == Member(graph_file.edges[i], "type")

C27_ChainExpandsOnce ==
    phase = "done" =>
       \A r \in 1..Len(output) :
          "chain" \in DOMAIN output[r] =>
             \A k \in 1..Len(output[r].chain) :
                LET line == output[r].chain[k]
                IN /\ line.depth <= 4
                   /\ Cardinality({m \in 1..Len(output[r].chain) :
                          /\ output[r].chain[m].type = line.type
                          /\ output[r].chain[m].node = line.node})
                      <= Cardinality({i \in KeptIdx :
                          FileEdgeTypeAt(i) = line.type /\ FileTarget(i) = line.node})

\* C27: every traversal ends, also on graphs with cycles, self-edges and
\* repeated edges: in the impact, cluster and path BFS a node is queued only
\* when it has not been marked before and stays marked, so no node is
\* queued or expanded twice, and every iteration lowers a bound on the
\* iterations left; the chain trace of an endpoint writes at most one line
\* for every kept edge, none deeper than its limit; a traversal that has
\* begun reaches its end.
C27_TraversalsTerminate ==
    /\ []C27_QueuedOnce
    /\ []C27_ChainExpandsOnce
    /\ [][C27_Iteration]_vars
    /\ (TraversalRunning ~> phase = "done")

\* the cluster search has ended on a file with the cycle A, B and a
\* repeated edge
C27_Witness ==
    /\ phase = "done"
    /\ output # <<>>
    /\ "cluster" \in DOMAIN output[1]
    /\ <<"A", "B">> \in KeptPairs /\ <<"B", "A">> \in KeptPairs
    /\ \E i, j \in KeptIdx :
          i # j /\ FileSource(i) = FileSource(j) /\ FileTarget(i) = FileTarget(j)
    /\ output[1].size = 2

\* the chain of the endpoint A on the cycle A, B with a self-edge of A:
\* one line for each of the three edges
C27_WitnessChain ==
    /\ phase = "done"
    /\ output # <<>>
    /\ "chain" \in DOMAIN output[1]
    /\ {<<"A", "B">>, <<"B", "A">>, <<"A", "A">>} \subseteq KeptPairs
    /\ Len(output[1].chain) = 3

\* the impact search of A has ended on the same file
C27_WitnessImpact ==
    /\ phase = "done"
    /\ output # <<>>
    /\ "total_affected" \in DOMAIN output[1]
    /\ {<<"A", "B">>, <<"B", "A">>, <<"A", "A">>} \subseteq KeptPairs
    /\ output[1].total_affected = 1

\* the path search from A for the unconnected C has ended without a path
C27_WitnessPath ==
    /\ phase = "done"
    /\ end_ids = {"C"}
    /\ visited = {"A", "B"}
    /\ output = NoPathFound

----------------------------------------------------------------------------
(* Claims about the risk tier the viewer shows *)

\* the viewer shows the risk of a node and the query engine has loaded the
\* same file
RiskShown == Loaded /\ viewer.loaded /\ viewer.hovered # 0

HoveredId == viewer.nodes[viewer.hovered].id

\* no later node record of the file has the id of the hovered one
HoveredIsLastOfId ==
    \A j \in DOMAIN graph_file.nodes :
        j > viewer.hovered => Member(graph_file.nodes[j], "id") # HoveredId

C29_WitnessDependents ==
    /\ RiskShown
    /\ viewer.nodes[viewer.hovered].type = "service"
    /\ viewer.risk[1] = "HIGH"
    /\ viewer.risk[2] < 10

\* a file with a ghost edge: the edge counts for no node
C29_WitnessGhost ==
    /\ RiskShown
    /\ Len(graph_file.edges) = 2
    /\ Len(viewer.edges) = 1
    /\ viewer.risk = <<"LOW", 1>>

----------------------------------------------------------------------------
(* Claims about a repeated id in the node table *)

\* the places of the records of the file with the id
RecordsOf(id) == {i \in DOMAIN FileIds : FileIds[i] = id}

\* the builder after add_node was called with the first k records of the
\* file, in order
RECURSIVE AddedInOrder(_)
AddedInOrder(k) ==
    IF k = 0 THEN GraphBuilder_init
    ELSE add_node(AddedInOrder(k - 1), FileIds[k], FileLabel(k), FileTypeAt(k),
                  FilePath(k), Member(graph_file.nodes[k], "line"),
                  Member(graph_file.nodes[k], "metadata")).self

BuilderTable == AddedInOrder(Len(graph_file.nodes)).nodes

\* the node table holds every id of the file once, in the order in which
\* the builder would hold them
OneNodePerId == DictKeys(gq.nodes) = DictKeys(BuilderTable)

\* C30 as stated: the node table holds one node for a repeated id, with the
\* label and type the builder would have kept (those of the first record).
C30_TableKeepsFirstRecord ==
    Loaded =>
        /\ OneNodePerId
        /\ \A id \in Range(FileIds) :
              /\ DictAt(gq.nodes, id).label = DictAt(BuilderTable, id).label
              /\ DictAt(gq.nodes, id).type = DictAt(BuilderTable, id).type

\* C30 as amended: the node table holds one node for a repeated id, at the
\* place of the first record and with the label and type of the last record
\* of the id; the builder would have kept those of the first record.
C30_TableKeepsLastRecord ==
    Loaded =>
        /\ OneNodePerId
        /\ \A id \in Range(FileIds) :
              /\ DictAt(gq.nodes, id).label = FileLabel(Max(RecordsOf(id)))
              /\ DictAt(gq.nodes, id).type = FileTypeAt(Max(RecordsOf(id)))
              /\ DictAt(BuilderTable, id).label = FileLabel(Min(RecordsOf(id)))
              /\ DictAt(BuilderTable, id).type = FileTypeAt(Min(RecordsOf(id)))

\* a file that lists A, then B, then A again with another label and type: the
\* table holds A before B, with the fields of the third record
C30_Witness ==
    /\ Loaded
    /\ FileIds = <<"A", "B", "A">>
    /\ FileTypeAt(1) # FileTypeAt(3)
    /\ DictKeys(gq.nodes) = <<"A", "B">>
    /\ DictAt(gq.nodes, "A").type = FileTypeAt(3)
    /\ DictAt(gq.nodes, "A").label = FileLabel(3)
====
